---- MODULE Spec2Model ----
(***************************************************************************)
(* A model of the nepeta reader and writer: the character traits, the     *)
(* recursive-descent parser (nepeta_parser) over its two storage           *)
(* specialisations (parser_document, parser_document_view), the base64     *)
(* codec and the writer (nepeta_writer).  Bytes are the integers 0..255,   *)
(* buffer positions are 0-based as in the source.                          *)
(***************************************************************************)
EXTENDS Integers, Sequences, FiniteSets, TLC

(***************************************************************************)
(* traits<char>                                                            *)
(***************************************************************************)
c_nullchar == 0
c_audible_bell == 7
c_backspace == 8
c_tab == 9
c_newline == 10
c_vertical_tab == 11
c_form_feed == 12
c_carriage_return == 13
c_space == 32
c_double_quote == 34
c_nested_node_marker == 35
c_single_quote == 39
c_comment_multiline_marker == 42
c_plus_sign == 43
c_minus_sign == 45
c_comment_marker == 47
c_end_of_data_context == 59
c_backslash == 92
c_block_data_open == 123
c_block_data_close == 125
esc_nullchar == 48
esc_audible_bell == 97
esc_backspace == 98
esc_form_feed == 102
esc_newline == 110
esc_carriage_return == 114
esc_tab == 116
esc_vertical_tab == 118
base64_padding_character == 61

\* "base64" and "text"
base64_codec == <<98, 97, 115, 101, 54, 52>>
text_codec == <<116, 101, 120, 116>>

is_whitespace(ch) == ch = c_space \/ ch = c_tab

is_newline(ch) == ch = c_newline \/ ch = c_carriage_return

\* char is a byte here: a byte >= 0x80 is never below c_space, whether the
\* build's char is signed (then it is negative) or unsigned.
is_binary(ch) == ch >= c_nullchar /\ ch < c_space /\ ~is_whitespace(ch) /\ ~is_newline(ch)

is_end_of_data_context_marker(ch) == ch = c_end_of_data_context

is_continue_data_context_on_next_line_marker(ch) == ch = c_backslash

is_comment_marker(ch) == ch = c_comment_marker

is_comment_multiline_marker(ch) == ch = c_comment_multiline_marker

is_string_marker(ch) == ch = c_double_quote

is_block_start_marker(ch) == ch = c_block_data_open

is_block_end_marker(ch) == ch = c_block_data_close

is_nested_node_marker(ch) == ch = c_nested_node_marker

is_escape_character_marker(ch) == ch = c_backslash

is_identifier(ch) ==
    /\ ~is_binary(ch)
    /\ ~is_whitespace(ch)
    /\ ~is_newline(ch)
    /\ ~is_nested_node_marker(ch)
    /\ ~is_string_marker(ch)
    /\ ~is_end_of_data_context_marker(ch)
    /\ ~is_continue_data_context_on_next_line_marker(ch)
    /\ ~is_block_start_marker(ch)
    /\ ~is_block_end_marker(ch)

is_base64_padding_character(ch) == ch = base64_padding_character

(***************************************************************************)
(* parser_error                                                            *)
(***************************************************************************)
illegal_character == "illegal_character"
node_not_closed == "node_not_closed"
comment_not_closed == "comment_not_closed"
string_not_closed == "string_not_closed"
block_not_closed == "block_not_closed"
too_may_node_closing_markers == "too_may_node_closing_markers"
bad_codec == "bad_codec"
recursion_limit_reached == "recursion_limit_reached"
require_newline == "require_newline"
invalid_escape == "invalid_escape"
bad_block_close == "bad_block_close"

default_recursion_limit == 2000
default_maximum_error_limit == 10

(***************************************************************************)
(* Integer helpers for the bit operations of the base64 codec.             *)
(***************************************************************************)
Min(a, b) == IF a < b THEN a ELSE b
Max(a, b) == IF a > b THEN a ELSE b

\* Sequencing: Bind([x \in {e} |-> body]) is body with the local variable x
\* holding the value of e, which the statements before it produced.
Bind(f) == f[CHOOSE v \in DOMAIN f : TRUE]

(***************************************************************************)
(* Base64 codec (nepeta_base64.h).  A buffer is a sequence of bytes; the   *)
(* element with C index i is s[i+1].                                       *)
(***************************************************************************)
base64_encoding_table ==
    <<65, 66, 67, 68, 69, 70, 71, 72, 73, 74, 75, 76, 77, 78, 79, 80,
      81, 82, 83, 84, 85, 86, 87, 88, 89, 90,
      97, 98, 99, 100, 101, 102, 103, 104, 105, 106, 107, 108, 109, 110, 111, 112,
      113, 114, 115, 116, 117, 118, 119, 120, 121, 122,
      48, 49, 50, 51, 52, 53, 54, 55, 56, 57, 43, 47>>

\* The 256-entry table of convert_from_base64, row by row; entries after
\* the last initialiser ('z') are zero.
base64_index(ch) ==
    CASE ch = 43 -> 62
      [] ch = 44 -> 63
      [] ch = 45 -> 62
      [] ch = 46 -> 62
      [] ch = 47 -> 63
      [] ch >= 48 /\ ch <= 57 -> ch + 4
      [] ch >= 65 /\ ch <= 90 -> ch - 65
      [] ch = 95 -> 63
      [] ch >= 97 /\ ch <= 122 -> ch - 71
      [] OTHER -> 0

\* input is the sequence of the InputSize bytes the fragment may read
\* (get(idx) for idx < InputSize); get(1) of a 1-byte fragment reads
\* input[1], the byte behind the fragment, passed as `after`.
convert_to_base64_fragment(InputSize, input, after) ==
    LET get(idx) == IF idx < InputSize THEN input[idx + 1] ELSE after
        o0 == base64_encoding_table[((get(0) \div 4) % 64) + 1]
        o1 == base64_encoding_table[((get(0) % 4) * 16 + ((get(1) \div 16) % 16)) + 1]
        o2 == IF InputSize >= 2
              THEN base64_encoding_table[((get(1) % 16) * 4
                       + (IF InputSize >= 3 THEN (get(2) \div 64) % 4 ELSE 0)) + 1]
              ELSE base64_padding_character
        o3 == IF InputSize >= 3
              THEN base64_encoding_table[(get(2) % 64) + 1]
              ELSE base64_padding_character
    IN  <<o0, o1, o2, o3>>

Put(s, i, ch) == [s EXCEPT ![i + 1] = ch]

RECURSIVE convert_from_base64_loop(_, _, _, _)
convert_from_base64_loop(s, read_i, write_i, last_aligned) ==
    IF read_i < last_aligned
    THEN LET n == base64_index(s[read_i + 1]) * 262144
                  + base64_index(s[read_i + 2]) * 4096
                  + base64_index(s[read_i + 3]) * 64
                  + base64_index(s[read_i + 4])
             s1 == Put(s, write_i, (n \div 65536) % 256)
             s2 == Put(s1, write_i + 1, (n \div 256) % 256)
             s3 == Put(s2, write_i + 2, n % 256)
         IN  convert_from_base64_loop(s3, read_i + 4, write_i + 3, last_aligned)
    ELSE [s |-> s, read_i |-> read_i, write_i |-> write_i]

\* Decodes s (p_in = p_out, size = Len(s)) in place; returns the buffer and
\* the new length.
convert_from_base64(s) ==
    LET size == Len(s)
        last_aligned == size - (size % 4)
        bytes_remaining == size % 4
    IN  Bind([l \in {convert_from_base64_loop(s, 0, 0, last_aligned)} |->
        Bind([w1 \in {IF size >= 4
             THEN l.write_i
                  - (IF is_base64_padding_character(l.s[l.read_i - 1 + 1]) THEN 1 ELSE 0)
                  - (IF is_base64_padding_character(l.s[l.read_i - 2 + 1]) THEN 1 ELSE 0)
             ELSE l.write_i} |->
            IF bytes_remaining = 2
            THEN LET n == base64_index(l.s[l.read_i + 1]) * 262144
                          + base64_index(l.s[l.read_i + 2]) * 4096
                 IN  [s |-> Put(l.s, w1, (n \div 65536) % 256), n |-> w1 + 1]
            ELSE IF bytes_remaining = 3
            THEN LET n == base64_index(l.s[l.read_i + 1]) * 262144
                          + base64_index(l.s[l.read_i + 2]) * 4096
                          + base64_index(l.s[l.read_i + 3]) * 64
                     b1 == Put(l.s, w1, (n \div 65536) % 256)
                 IN  [s |-> Put(b1, w1 + 1, (n \div 256) % 256), n |-> w1 + 2]
            ELSE [s |-> l.s, n |-> w1]])])

(***************************************************************************)
(* parser_document / parser_document_view (the two specialisations) and    *)
(* the members of nepeta_parser that wrap them.  A parser is the record    *)
(*   source            the buffer (the view parser writes into it)         *)
(*   view              TRUE for parser_document_view                       *)
(*   buffer_position, current_character, error_limit, recursion_limit      *)
(*   errs              the calls made to error_function, in order          *)
(* and the history fields                                                  *)
(*   errat             the buffer position passed to each delivered error  *)
(*   error_calls       the number of calls of error(), delivered or not    *)
(*   out_of_bounds     a read or write outside the buffer happened         *)
(*   write_ahead       add_character / copy_string wrote at or above the   *)
(*                     read position                                       *)
(*   max_recursion     highest level parse_node_body_context was entered   *)
(*   no_progress       a loop iteration neither advanced nor left the loop *)
(***************************************************************************)
eof(p) == p.buffer_position >= Len(p.source)

\* parser_document compares with the unsigned source.size()-1, which wraps
\* for an empty source; parser_document_view compares buffer_position+1.
next_eof(p) ==
    IF p.view
    THEN p.buffer_position + 1 >= Len(p.source)
    ELSE IF Len(p.source) = 0 THEN FALSE
         ELSE p.buffer_position >= Len(p.source) - 1

\* an index below source.size(); the terminator a std::string keeps at index
\* size() is not part of the source
Readable(p, i) == i >= 0 /\ i < Len(p.source)

SourceAt(p, i) == IF i >= 0 /\ i < Len(p.source) THEN p.source[i + 1] ELSE c_nullchar

Touch(p, i) == IF Readable(p, i) THEN p ELSE [p EXCEPT !.out_of_bounds = TRUE]

\* the bytes of the slice [first, first + n) are read
TouchSlice(p, first, n) == IF n > 0 THEN Touch(Touch(p, first), first + n - 1) ELSE p

peek_next_character(p) ==
    IF next_eof(p) THEN c_nullchar ELSE SourceAt(p, p.buffer_position + 1)

is_eof(p) == eof(p)

get_buffer_position(p) == p.buffer_position

get_recursion_limit(p) == p.recursion_limit

specialization_next_character(p) == [p EXCEPT !.buffer_position = @ + 1]

\* next_character without the look-ahead for a line feed after a carriage return
next_character_single(p) == specialization_next_character(p)

next_character(p) ==
    IF p.current_character = c_carriage_return
    THEN LET q == IF next_eof(p) THEN p ELSE Touch(p, p.buffer_position + 1)
         IN  IF peek_next_character(p) = c_newline
             THEN specialization_next_character(specialization_next_character(q))
             ELSE specialization_next_character(q)
    ELSE specialization_next_character(p)

update_current_character_unsafe(p) ==
    [Touch(p, p.buffer_position) EXCEPT !.current_character = SourceAt(p, p.buffer_position)]

\* the byte under the cursor read without the test of eof
update_current_character_unchecked(p) == update_current_character_unsafe(p)

update_current_character(p) ==
    IF is_eof(p) THEN [p EXCEPT !.current_character = c_nullchar]
    ELSE update_current_character_unsafe(p)

RECURSIVE line_column_loop(_, _, _, _, _)
line_column_loop(buf, bufpos, i, line, column) ==
    IF i < bufpos
    THEN IF i < Len(buf) /\ buf[i + 1] = c_newline
         THEN line_column_loop(buf, bufpos, i + 1, line + 1, 1)
         ELSE line_column_loop(buf, bufpos, i + 1, line, column + 1)
    ELSE [line |-> line, column |-> column]

line_column_from_buffer_position(buf, bufpos) == line_column_loop(buf, bufpos, 0, 1, 1)

\* error() without the test of the quota
error_unlimited(p, type, ch, buffer_pos) ==
    LET lc == line_column_from_buffer_position(p.source, buffer_pos)
    IN  [p EXCEPT !.errs = Append(@, [type |-> type, ch |-> ch,
                                      line |-> lc.line, column |-> lc.column]),
                  !.errat = Append(@, buffer_pos),
                  !.error_calls = @ + 1,
                  !.error_limit = @ - 1]

error(p, type, ch, buffer_pos) ==
    IF p.error_limit = 0
    THEN [p EXCEPT !.error_calls = @ + 1]
    ELSE LET lc == line_column_from_buffer_position(p.source, buffer_pos)
             q == IF buffer_pos > 0 THEN Touch(p, buffer_pos - 1) ELSE p
         IN  [q EXCEPT !.errs = Append(@, [type |-> type, ch |-> ch,
                                           line |-> lc.line, column |-> lc.column]),
                       !.errat = Append(@, buffer_pos),
                       !.error_calls = @ + 1,
                       !.error_limit = @ - 1]

\* A value is a byte sequence in a document and a slice [off, len] of the
\* source buffer in a document_view.
make_data(p) ==
    IF p.view THEN [off |-> p.buffer_position, len |-> 0] ELSE <<>>

data_size(p, d) == IF p.view THEN d.len ELSE Len(d)

\* add_character writing at the start of dst instead of its end
add_character_at_start(p, dst, ch) ==
    IF p.view
    THEN [p |-> IF dst.off < Len(p.source)
                THEN [p EXCEPT !.source = Put(@, dst.off, ch)]
                ELSE p,
          d |-> [off |-> dst.off, len |-> dst.len + 1]]
    ELSE [p |-> p, d |-> Append(dst, ch)]

\* add_character writing one byte past the end of dst
add_character_skipping(p, dst, ch) ==
    IF p.view
    THEN LET offset == dst.off + dst.len + 1
             q == [p EXCEPT !.write_ahead = @ \/ offset >= p.buffer_position,
                            !.out_of_bounds = @ \/ offset >= Len(p.source)]
         IN  [p |-> IF offset < Len(p.source)
                    THEN [q EXCEPT !.source = Put(@, offset, ch)]
                    ELSE q,
              d |-> [off |-> dst.off, len |-> dst.len + 1]]
    ELSE [p |-> p, d |-> Append(dst, ch)]

add_character(p, dst, ch) ==
    IF p.view
    THEN LET offset == dst.off + dst.len
             q == [p EXCEPT !.write_ahead = @ \/ offset >= p.buffer_position,
                            !.out_of_bounds = @ \/ offset >= Len(p.source)]
         IN  [p |-> IF offset < Len(p.source)
                    THEN [q EXCEPT !.source = Put(@, offset, ch)]
                    ELSE q,
              d |-> [off |-> dst.off, len |-> dst.len + 1]]
    ELSE [p |-> p, d |-> Append(dst, ch)]

\* std::copy(first, first+n, source.data()+offset), front to back
RECURSIVE copy_forward(_, _, _, _)
copy_forward(s, first, n, offset) ==
    IF n = 0 THEN s
    ELSE copy_forward(Put(s, offset, s[first + 1]), first + 1, n - 1, offset + 1)

\* append_buffer_string: copy_string(data, source_view_before_current(n_bytes))
append_buffer_string(p, dst, n_bytes) ==
    LET first == p.buffer_position - n_bytes
        r == IF n_bytes > 0 /\ p.buffer_position > Len(p.source)
             THEN [p EXCEPT !.out_of_bounds = TRUE] ELSE p
        last == Min(p.buffer_position, Len(p.source))
    IN  IF p.view
        THEN LET offset == dst.off + dst.len
                 q == [r EXCEPT !.write_ahead = @ \/ (n_bytes > 0 /\ dst.off # first
                                                       /\ offset + n_bytes > p.buffer_position)]
             IN  [p |-> IF dst.off # first /\ n_bytes > 0 /\ last = p.buffer_position
                        THEN [q EXCEPT !.source = copy_forward(@, first, n_bytes, offset)]
                        ELSE q,
                  d |-> [off |-> dst.off, len |-> dst.len + n_bytes]]
        ELSE [p |-> r, d |-> dst \o SubSeq(p.source, first + 1, last)]

\* base64_convert: convert_from_base64(data_of(data), data.size()), then
\* resize_string(data, new_size)
base64_convert(p, data) ==
    IF p.view
    THEN LET lo == Min(data.off, Len(p.source))
             hi == Min(data.off + data.len, Len(p.source))
         IN  Bind([c \in {convert_from_base64(SubSeq(p.source, lo + 1, hi))} |->
                 [p |-> [TouchSlice(p, data.off, data.len)
                            EXCEPT !.source = SubSeq(@, 1, lo) \o c.s
                                                \o SubSeq(@, hi + 1, Len(@))],
                  d |-> [off |-> data.off, len |-> c.n]]])
    ELSE Bind([c \in {convert_from_base64(data)} |->
             [p |-> p, d |-> SubSeq(c.s, 1, c.n)]])

nepeta_parser(source, view, recursion_limit, error_limit) ==
    [source |-> source, view |-> view,
     buffer_position |-> 0,
     current_character |-> IF Len(source) = 0 THEN c_nullchar ELSE source[1],
     recursion_limit |-> recursion_limit, error_limit |-> error_limit,
     errs |-> <<>>, errat |-> <<>>, error_calls |-> 0,
     out_of_bounds |-> FALSE, write_ahead |-> FALSE,
     max_recursion |-> 0, no_progress |-> FALSE]

(***************************************************************************)
(* nepeta_parser: the parsing contexts.  Every function takes the parser   *)
(* and returns it (field p) next to its C++ result.                        *)
(***************************************************************************)
\* The predicates handed to skip() and read(); `target` is the captured
\* target_buffer_position of the indentation lambda.
matching_predicate(kind, p, target) ==
    LET cur == p.current_character IN
    CASE kind = "whitespace_and_newlines" -> is_whitespace(cur) \/ is_newline(cur)
      [] kind = "whitespace" -> is_whitespace(cur)
      [] kind = "identifier" -> is_identifier(cur)
      [] kind = "block_text" -> ~is_newline(cur) /\ ~is_escape_character_marker(cur)
      [] kind = "until_newline" -> ~is_newline(cur)
      [] kind = "string_text" ->
            ~(is_string_marker(cur) \/ is_newline(cur) \/ is_escape_character_marker(cur))
      [] kind = "indentation" -> get_buffer_position(p) < target /\ is_whitespace(cur)

\* skip(): the returned parsing_position is eof iff is_eof of the result
RECURSIVE skip(_, _, _)
skip(p, kind, target) ==
    IF matching_predicate(kind, p, target)
    THEN Bind([q \in {next_character(p)} |->
             IF is_eof(q) THEN q
             ELSE skip(update_current_character_unsafe(q), kind, target)])
    ELSE p

\* read(): the number of bytes skip() passed
read(p, q) == get_buffer_position(q) - get_buffer_position(p)

detect_data_type(p) ==
    IF is_identifier(p.current_character) THEN "identifier"
    ELSE IF is_string_marker(p.current_character) THEN "string"
    ELSE IF is_block_start_marker(p.current_character) THEN "block"
    ELSE "not_a_data_type"

\* the switch of read_escape_character: the byte to add, or -1 for the
\* default branch
escape_to_add(ch) ==
    CASE ch = esc_nullchar -> c_nullchar
      [] ch = esc_audible_bell -> c_audible_bell
      [] ch = esc_backspace -> c_backspace
      [] ch = esc_form_feed -> c_form_feed
      [] ch = esc_newline -> c_newline
      [] ch = esc_carriage_return -> c_carriage_return
      [] ch = esc_tab -> c_tab
      [] ch = esc_vertical_tab -> c_vertical_tab
      [] ch \in {c_single_quote, c_double_quote, c_backslash, c_space, c_tab,
                 c_block_data_open, c_block_data_close} -> ch
      [] OTHER -> -1

read_escape_character(p, data) ==
    Bind([q \in {update_current_character(next_character(p))} |->
    Bind([to_add \in {escape_to_add(q.current_character)} |->
        IF to_add = -1
        THEN [p |-> error(q, invalid_escape, q.current_character, get_buffer_position(q)),
              d |-> data]
        ELSE Bind([a \in {add_character(q, data, to_add)} |->
                 [p |-> update_current_character(next_character(a.p)), d |-> a.d]])])])

RECURSIVE skip_comment_loop(_, _, _)
skip_comment_loop(p, type, start_position) ==
    IF is_eof(p)
    THEN [p |-> error(p, comment_not_closed, c_nullchar, start_position), type |-> type]
    ELSE Bind([u \in {update_current_character_unsafe(p)} |->
             IF is_comment_multiline_marker(u.current_character)
                /\ is_comment_marker(peek_next_character(u))
             THEN [p |-> update_current_character(next_character(next_character(u))),
                   type |-> type]
             ELSE Bind([q \in {next_character(u)} |->
                  Bind([t \in {IF is_newline(u.current_character)
                       THEN "passed_to_next_line" ELSE type} |->
                      IF get_buffer_position(q) > get_buffer_position(p)
                      THEN skip_comment_loop(q, t, start_position)
                      ELSE [p |-> [q EXCEPT !.no_progress = TRUE], type |-> t]])])])

\* every comment reported as staying on its line
skip_comment_on_one_line(p) ==
    LET start_position == get_buffer_position(p)
    IN  Bind([next_ch \in {peek_next_character(p)} |->
        Bind([t \in {IF next_eof(p) THEN p ELSE Touch(p, p.buffer_position + 1)} |->
            IF is_comment_multiline_marker(next_ch)
            THEN [p |-> skip_comment_loop(next_character(next_character(t)),
                                          "stayed_on_same_line", start_position).p,
                  type |-> "stayed_on_same_line"]
            ELSE IF is_comment_marker(next_ch)
            THEN [p |-> skip(t, "until_newline", 0), type |-> "stayed_on_same_line"]
            ELSE [p |-> t, type |-> "not_a_comment"]])])

skip_comment(p) ==
    LET start_position == get_buffer_position(p)
    IN  Bind([next_ch \in {peek_next_character(p)} |->
        Bind([t \in {IF next_eof(p) THEN p ELSE Touch(p, p.buffer_position + 1)} |->
            IF is_comment_multiline_marker(next_ch)
            THEN skip_comment_loop(next_character(next_character(t)),
                                   "stayed_on_same_line", start_position)
            ELSE IF is_comment_marker(next_ch)
            THEN [p |-> skip(t, "until_newline", 0), type |-> "passed_to_next_line"]
            ELSE [p |-> t, type |-> "not_a_comment"]])])

\* require_newline reported at the start of the source
skip_whitespace_until_newline_reporting_start(p) ==
    Bind([s \in {skip(p, "whitespace", 0)} |->
    Bind([e \in {IF ~is_newline(s.current_character)
         THEN skip(error(s, require_newline, s.current_character, 0),
                   "until_newline", 0)
         ELSE s} |->
        IF ~is_eof(e) THEN update_current_character(next_character(e)) ELSE e])])

skip_whitespace_until_newline(p) ==
    Bind([s \in {skip(p, "whitespace", 0)} |->
    Bind([e \in {IF ~is_newline(s.current_character)
         THEN skip(error(s, require_newline, s.current_character, get_buffer_position(s)),
                   "until_newline", 0)
         ELSE s} |->
        IF ~is_eof(e) THEN update_current_character(next_character(e)) ELSE e])])

RECURSIVE parse_block_line(_, _)
parse_block_line(p, data) ==
    IF is_eof(p) THEN [p |-> p, d |-> data]
    ELSE Bind([s \in {skip(p, "block_text", 0)} |->
         Bind([a \in {append_buffer_string(s, data, read(p, s))} |->
             IF is_eof(a.p) THEN a
             ELSE IF is_newline(a.p.current_character)
             THEN [p |-> update_current_character(next_character(a.p)), d |-> a.d]
             ELSE Bind([e \in {IF is_escape_character_marker(a.p.current_character)
                       THEN read_escape_character(a.p, a.d) ELSE a} |->
                      IF get_buffer_position(e.p) > get_buffer_position(p)
                      THEN parse_block_line(e.p, e.d)
                      ELSE [p |-> [e.p EXCEPT !.no_progress = TRUE], d |-> e.d]])])])

RECURSIVE parse_data_block_body_loop(_, _, _, _, _, _, _)
parse_data_block_body_loop(p, data, is_first_line, current_column_start, column_depth, start_position, is_base64) ==
    IF is_eof(p)
    THEN [p |-> error(p, block_not_closed, c_nullchar, start_position), d |-> data]
    ELSE IF is_block_end_marker(p.current_character)
            /\ ((get_buffer_position(p) - current_column_start) < column_depth \/ is_first_line)
    THEN [p |-> update_current_character(next_character(p)), d |-> data]
    ELSE Bind([w \in {IF is_block_end_marker(p.current_character)
              THEN error(p, bad_block_close, c_nullchar, get_buffer_position(p))
              ELSE p} |->
         Bind([a \in {IF ~is_first_line /\ ~is_base64
              THEN add_character(w, data, c_newline)
              ELSE [p |-> w, d |-> data]} |->
         Bind([l \in {parse_block_line(a.p, a.d)} |->
         Bind([column_start \in {get_buffer_position(l.p)} |->
         Bind([target_buffer_position \in {column_start + column_depth} |->
         Bind([s \in {skip(l.p, "indentation", target_buffer_position)} |->
             IF get_buffer_position(s) > get_buffer_position(p)
             THEN parse_data_block_body_loop(s, l.d, FALSE, column_start,
                                             column_depth, start_position, is_base64)
             ELSE [p |-> [s EXCEPT !.no_progress = TRUE], d |-> l.d]])])])])])])

\* the indentation taken one byte deeper than the first line's
parse_data_block_body_context_deeper(p, start_position, is_base64) ==
    Bind([before_whitespace \in {get_buffer_position(p)} |->
    Bind([s \in {skip(p, "whitespace", 0)} |->
    Bind([column_depth \in {get_buffer_position(s) - before_whitespace + 1} |->
        parse_data_block_body_loop(s, make_data(s), TRUE, before_whitespace,
                                   column_depth, start_position, is_base64)])])])

parse_data_block_body_context(p, start_position, is_base64) ==
    Bind([before_whitespace \in {get_buffer_position(p)} |->
    Bind([s \in {skip(p, "whitespace", 0)} |->
    Bind([column_depth \in {get_buffer_position(s) - before_whitespace} |->
        parse_data_block_body_loop(s, make_data(s), TRUE, before_whitespace,
                                   column_depth, start_position, is_base64)])])])

\* source_view_before_current(read(identifier)) compared with the codec names
parse_data_block_codec_context(p) ==
    Bind([codec_start_position \in {get_buffer_position(p)} |->
    Bind([s \in {Bind([q \in {skip(p, "identifier", 0)} |->
                     TouchSlice(q, codec_start_position, read(p, q))])} |->
    Bind([codec \in {SubSeq(s.source, codec_start_position + 1,
                Min(get_buffer_position(s), Len(s.source)))} |->
        IF codec = base64_codec THEN [p |-> s, codec |-> "base64"]
        ELSE IF codec # text_codec
        THEN [p |-> error(s, bad_codec, c_nullchar, codec_start_position), codec |-> "text"]
        ELSE [p |-> s, codec |-> "text"]])])])

parse_data_block_context(p) ==
    Bind([start_position \in {get_buffer_position(p)} |->
    Bind([s \in {skip(update_current_character(next_character(p)), "whitespace", 0)} |->
        IF is_eof(s)
        THEN Bind([e \in {error(s, block_not_closed, c_nullchar, start_position)} |->
                 [p |-> e, d |-> make_data(e)]])
        ELSE Bind([c \in {IF is_identifier(s.current_character)
                  THEN parse_data_block_codec_context(s)
                  ELSE [p |-> s, codec |-> "text"]} |->
             Bind([process_as_base64 \in {c.codec = "base64"} |->
             Bind([b \in {parse_data_block_body_context(skip_whitespace_until_newline(c.p),
                                                start_position, process_as_base64)} |->
                 IF process_as_base64 THEN base64_convert(b.p, b.d) ELSE b])])])])])

RECURSIVE parse_data_string_loop(_, _, _)
parse_data_string_loop(p, data, start_position) ==
    IF is_eof(p)
    THEN [p |-> error(p, string_not_closed, c_nullchar, start_position), d |-> data]
    ELSE Bind([u \in {update_current_character_unsafe(p)} |->
         Bind([s \in {skip(u, "string_text", 0)} |->
         Bind([a \in {append_buffer_string(s, data, read(u, s))} |->
             IF is_string_marker(a.p.current_character)
             THEN [p |-> update_current_character(next_character(a.p)), d |-> a.d]
             ELSE IF is_escape_character_marker(a.p.current_character)
             THEN Bind([e \in {read_escape_character(a.p, a.d)} |->
                      IF get_buffer_position(e.p) > get_buffer_position(p)
                      THEN parse_data_string_loop(e.p, e.d, start_position)
                      ELSE [p |-> [e.p EXCEPT !.no_progress = TRUE], d |-> e.d]])
             ELSE [p |-> error(a.p, string_not_closed, c_nullchar, start_position),
                   d |-> a.d]])])])

parse_data_string_context(p) ==
    Bind([start_position \in {get_buffer_position(p)} |->
    Bind([q \in {next_character(p)} |->
        parse_data_string_loop(q, make_data(q), start_position)])])

parse_data_identifier_context(p) ==
    Bind([s \in {skip(p, "identifier", 0)} |->
        append_buffer_string(s, make_data(p), read(p, s))])

\* the recovery without next_character()
illegal_character_stay(p) ==
    update_current_character(
        error(p, illegal_character, p.current_character, get_buffer_position(p)))

\* error(illegal_character, ..); next_character(); update_current_character();
illegal_character_skip(p) ==
    update_current_character(next_character(
        error(p, illegal_character, p.current_character, get_buffer_position(p))))

parse_single_data(p, type) ==
    CASE type = "block" -> parse_data_block_context(p)
      [] type = "string" -> parse_data_string_context(p)
      [] type = "identifier" -> parse_data_identifier_context(p)
      [] OTHER -> Bind([e \in {illegal_character_skip(p)} |-> [p |-> e, d |-> make_data(e)]])

\* `data` is node.data so far; the result carries it with the values added
RECURSIVE parse_node_data_context(_, _)
parse_node_data_context(p, data) ==
    Bind([s \in {skip(p, "whitespace", 0)} |->
    Bind([c \in {IF ~is_eof(s) /\ is_comment_marker(s.current_character)
         THEN skip_comment(s)
         ELSE [p |-> s, type |-> "not_a_comment"]} |->
    Bind([n \in {IF is_eof(s) \/ c.type = "passed_to_next_line"
         THEN [p |-> c.p, data |-> data, return |-> TRUE]
         ELSE IF c.type = "stayed_on_same_line"
         THEN [p |-> c.p, data |-> data, return |-> FALSE]
         ELSE IF is_end_of_data_context_marker(s.current_character)
         THEN [p |-> update_current_character(next_character(c.p)),
               data |-> data, return |-> TRUE]
         ELSE IF is_continue_data_context_on_next_line_marker(s.current_character)
         THEN [p |-> skip_whitespace_until_newline(
                        update_current_character(next_character(c.p))),
               data |-> data, return |-> FALSE]
         ELSE IF is_newline(s.current_character)
         THEN [p |-> c.p, data |-> data, return |-> TRUE]
         ELSE Bind([type \in {detect_data_type(c.p)} |->
                  IF type = "not_a_data_type"
                  THEN [p |-> illegal_character_skip(c.p),
                        data |-> data, return |-> FALSE]
                  ELSE Bind([v \in {parse_single_data(c.p, type)} |->
                           [p |-> v.p, data |-> Append(data, v.d), return |-> FALSE]])])} |->
        IF n.return THEN [p |-> n.p, data |-> n.data]
        ELSE IF get_buffer_position(n.p) > get_buffer_position(p)
        THEN parse_node_data_context(n.p, n.data)
        ELSE [p |-> [n.p EXCEPT !.no_progress = TRUE], data |-> n.data]])])])

\* node.children.emplace_back(): the new child, with its id and data parsed
parse_node_header_context(p, header_data_type) ==
    Bind([i \in {parse_single_data(p, header_data_type)} |->
    Bind([d \in {parse_node_data_context(i.p, <<>>)} |->
        [p |-> d.p, node |-> [id |-> i.d, data |-> d.data, children |-> <<>>]]])])

\* the limit test off by one
recursion_limit_check_late(p, current_recursion) ==
    current_recursion >= get_recursion_limit(p)

\* if(current_recursion + size_type{1} >= get_recursion_limit())
recursion_limit_check(p, current_recursion) ==
    current_recursion + 1 >= get_recursion_limit(p)

\* `children` is node.children so far; the result carries it with the
\* children added.
RECURSIVE parse_node_body_loop(_, _, _, _)
parse_node_body_loop(p, children, current_recursion, start_pos) ==
    Bind([s \in {skip(p, "whitespace_and_newlines", 0)} |->
    Bind([c \in {IF ~is_eof(s) /\ is_comment_marker(s.current_character)
         THEN skip_comment(s)
         ELSE [p |-> s, type |-> "not_a_comment"]} |->
    Bind([nested_start_pos \in {get_buffer_position(s)} |->
    Bind([is_nested \in {is_nested_node_marker(s.current_character)} |->
    Bind([m \in {IF is_nested THEN update_current_character(next_character(c.p)) ELSE c.p} |->
    Bind([header_data_type \in {detect_data_type(m)} |->
    Bind([n \in {IF is_eof(s)
         THEN [p |-> IF current_recursion > 0
                     THEN error(s, node_not_closed, c_nullchar, start_pos)
                     ELSE s,
               children |-> children, return |-> TRUE]
         ELSE IF c.type # "not_a_comment"
         THEN [p |-> c.p, children |-> children, return |-> FALSE]
         ELSE IF is_nested /\ (is_eof(m) \/ is_whitespace(m.current_character)
                               \/ is_newline(m.current_character))
         THEN [p |-> IF current_recursion = 0
                     THEN error(m, too_may_node_closing_markers, c_nullchar,
                                nested_start_pos)
                     ELSE m,
               children |-> children, return |-> TRUE]
         ELSE IF header_data_type = "string" \/ header_data_type = "identifier"
         THEN Bind([h \in {parse_node_header_context(m, header_data_type)} |->
                  IF recursion_limit_check(h.p, current_recursion)
                  THEN [p |-> skip(error(h.p, recursion_limit_reached, c_nullchar,
                                         nested_start_pos), "until_newline", 0),
                        children |-> Append(children, h.node), return |-> FALSE]
                  ELSE IF is_nested
                  THEN Bind([b \in {parse_node_body_loop(
                                [h.p EXCEPT !.max_recursion =
                                     Max(@, current_recursion + 1)],
                                <<>>, current_recursion + 1, nested_start_pos)} |->
                           [p |-> b.p,
                            children |-> Append(children,
                                           [h.node EXCEPT !.children = b.children]),
                            return |-> FALSE]])
                  ELSE [p |-> h.p, children |-> Append(children, h.node),
                        return |-> FALSE]])
         ELSE Bind([e \in {error(m, illegal_character, m.current_character,
                         get_buffer_position(m))} |->
                  [p |-> IF ~is_nested_node_marker(m.current_character)
                         THEN update_current_character(next_character(e))
                         ELSE e,
                   children |-> children, return |-> FALSE]])} |->
        IF n.return THEN [p |-> n.p, children |-> n.children]
        ELSE IF get_buffer_position(n.p) > get_buffer_position(p)
        THEN parse_node_body_loop(n.p, n.children, current_recursion, start_pos)
        ELSE [p |-> [n.p EXCEPT !.no_progress = TRUE], children |-> n.children]])])])])])])])

parse_node_body_context(p, node, current_recursion, start_pos) ==
    Bind([b \in {parse_node_body_loop(p, node.children, current_recursion, start_pos)} |->
        [p |-> b.p, node |-> [node EXCEPT !.children = b.children]]])

(***************************************************************************)
(* load / load_view (nepeta_parser.h) and document comparison.             *)
(***************************************************************************)
empty_document == [id |-> <<>>, data |-> <<>>, children |-> <<>>]

\* a default-constructed basic_document_view: empty string_view id
empty_document_view == [id |-> [off |-> 0, len |-> 0], data |-> <<>>, children |-> <<>>]

\* the document's earlier content dropped
load_into_cleared(doc, source, recursion_limit, error_limit) ==
    parse_node_body_context(nepeta_parser(source, FALSE, recursion_limit, error_limit),
                            [doc EXCEPT !.children = <<>>], 0, 0)

load_into(doc, source, recursion_limit, error_limit) ==
    parse_node_body_context(nepeta_parser(source, FALSE, recursion_limit, error_limit),
                            doc, 0, 0)

load_into_view(doc, source, recursion_limit, error_limit) ==
    parse_node_body_context(nepeta_parser(source, TRUE, recursion_limit, error_limit),
                            doc, 0, 0)

load(source, recursion_limit, error_limit) ==
    load_into(empty_document, source, recursion_limit, error_limit)

load_view(source, recursion_limit, error_limit) ==
    load_into_view(empty_document_view, source, recursion_limit, error_limit)

\* the bytes a string_view [off, len] denotes in the buffer buf
view_bytes(buf, d) == SubSeq(buf, d.off + 1, Min(d.off + d.len, Len(buf)))

\* the document a document_view denotes: operator== of basic_document_view
\* compares ids, data and children by content
RECURSIVE document_of_view(_, _)
document_of_view(buf, node) ==
    [id |-> view_bytes(buf, node.id),
     data |-> [i \in 1..Len(node.data) |-> view_bytes(buf, node.data[i])],
     children |-> [i \in 1..Len(node.children) |-> document_of_view(buf, node.children[i])]]

(***************************************************************************)
(* nepeta_algorithm.h.  A function that changes its arguments returns      *)
(* them as they are after the call.                                        *)
(***************************************************************************)
\* other's elements put in front of doc's
merge_prepending(doc, other) ==
    [doc |-> [doc EXCEPT !.data = other.data \o @,
                         !.children = other.children \o @],
     other |-> other]

\* merge(DocumentType& doc, const DocumentType& other), two distinct objects
merge(doc, other) ==
    [doc |-> [doc EXCEPT !.data = @ \o other.data,
                         !.children = @ \o other.children],
     other |-> other]

\* merge(DocumentType& doc, DocumentType&& other), two distinct objects
merge_move(doc, other) ==
    [doc |-> [doc EXCEPT !.data = @ \o other.data,
                         !.children = @ \o other.children],
     other |-> [other EXCEPT !.data = <<>>, !.children = <<>>]]

is_minus_sign(ch) == ch = c_minus_sign

is_plus_sign(ch) == ch = c_plus_sign

is_number_spacer(ch) == ch = c_single_quote

is_number(ch) == ch >= 48 /\ ch <= 57

to_number(ch) == ch - 48

\* the width of int, to which the narrower integer types are promoted
int_width == 32

\* the value x converted to IntegerType T = [bits, signed]: narrowing keeps
\* the low bits; an int holds every value that reaches it without overflow
integer_cast(T, x) ==
    IF T.bits >= int_width THEN x
    ELSE LET low == x % (2 ^ T.bits)
         IN  IF T.signed /\ low >= 2 ^ (T.bits - 1) THEN low - 2 ^ T.bits ELSE low

\* the loop of opt_integer from index i.  `undefined` is set when
\* result*10 + digit overflows a signed type that is not promoted.
RECURSIVE opt_integer_loop(_, _, _, _, _)
opt_integer_loop(T, view, i, result, is_negative) ==
    IF i >= Len(view)
    THEN [returned |-> TRUE, result |-> result, is_negative |-> is_negative,
          undefined |-> FALSE]
    ELSE Bind([ch \in {view[i + 1]} |->
             IF i = 0 /\ is_minus_sign(ch)
             THEN opt_integer_loop(T, view, i + 1, result, TRUE)
             ELSE IF i = 0 /\ is_plus_sign(ch)
             THEN opt_integer_loop(T, view, i + 1, result, FALSE)
             ELSE IF is_number(ch)
             THEN IF T.signed /\ T.bits >= int_width
                     /\ result > (2147483647 - to_number(ch)) \div 10
                  THEN [returned |-> TRUE, result |-> 0, is_negative |-> is_negative,
                        undefined |-> TRUE]
                  ELSE opt_integer_loop(T, view, i + 1,
                                        integer_cast(T, result * 10 + to_number(ch)),
                                        is_negative)
             ELSE IF is_number_spacer(ch)
             THEN opt_integer_loop(T, view, i + 1, result, is_negative)
             ELSE [returned |-> FALSE, result |-> 0, is_negative |-> is_negative,
                   undefined |-> FALSE]])

\* the sign of a leading '-' not applied
opt_integer_unsigned(T, view) ==
    Bind([r \in {opt_integer_loop(T, view, 0, 0, FALSE)} |->
        [has_value |-> r.returned /\ ~r.undefined,
         value |-> IF r.returned /\ ~r.undefined THEN r.result ELSE 0,
         undefined |-> r.undefined]])

\* opt_integer<IntegerType>(view): std::nullopt is has_value = FALSE
opt_integer(T, view) ==
    Bind([r \in {opt_integer_loop(T, view, 0, 0, FALSE)} |->
        [has_value |-> r.returned /\ ~r.undefined,
         value |-> IF r.returned /\ ~r.undefined
                   THEN integer_cast(T, IF r.is_negative THEN 0 - r.result ELSE r.result)
                   ELSE 0,
         undefined |-> r.undefined]])

(***************************************************************************)
(* nepeta_writer (nepeta_writer.h, nepeta_writer_detail.h).  wp is the     *)
(* writer_parameters record; every write function returns the bytes it     *)
(* hands to the writer callback, in order.                                 *)
(***************************************************************************)
default_limit_for_block_enforcement == 128
default_base64_per_line == 60
\* std::numeric_limits<unsigned int>::max() is beyond TLC's integers; the value
\* is only used in min(data.size(), max(.., ..)), where any value above every
\* data length acts alike.
default_limit_for_checking_binary == 2147483647

writer_parameters(indentation, indentation_characters, limit_for_block_enforcement, limit_for_checking_binary, base64_per_line) ==
    [indentation |-> indentation,
     indentation_characters |-> indentation_characters,
     limit_for_block_enforcement |-> limit_for_block_enforcement,
     limit_for_checking_binary |-> limit_for_checking_binary,
     base64_per_line |-> base64_per_line]

indentation_char(wp) == IF wp.indentation = "tabs" THEN c_tab ELSE c_space

write_copies(ch, copies) == [i \in 1..copies |-> ch]

write_indentation(wp, depth) ==
    write_copies(indentation_char(wp), wp.indentation_characters * depth)

write_newline == <<c_newline>>

\* no control character replaced by its escape letter
to_escaped_character_raw(ch) == ch

to_escaped_character(ch) ==
    CASE ch = c_nullchar -> esc_nullchar
      [] ch = c_audible_bell -> esc_audible_bell
      [] ch = c_backspace -> esc_backspace
      [] ch = c_form_feed -> esc_form_feed
      [] ch = c_newline -> esc_newline
      [] ch = c_carriage_return -> esc_carriage_return
      [] ch = c_tab -> esc_tab
      [] ch = c_vertical_tab -> esc_vertical_tab
      [] OTHER -> ch

determine_identifier_type(data) ==
    IF \E i \in 1..Len(data) : ~is_identifier(data[i]) THEN "string" ELSE "identifier"

\* determine_data_type scanning limit_for_checking_binary bytes only
determine_data_type_short_scan(wp, data) ==
    IF Len(data) = 0 THEN "string"
    ELSE LET max_check == Min(Len(data), wp.limit_for_checking_binary)
             binary_seen == \E i \in 1..max_check : is_binary(data[i])
             is_identifier_v == \A i \in 1..max_check : is_identifier(data[i])
         IN  IF binary_seen THEN "block_base64"
             ELSE IF Len(data) >= wp.limit_for_block_enforcement THEN "block"
             ELSE IF is_identifier_v THEN "identifier"
             ELSE "string"

determine_data_type(wp, data) ==
    IF Len(data) = 0 THEN "string"
    ELSE LET max_check == Min(Len(data), Max(wp.limit_for_checking_binary,
                                             wp.limit_for_block_enforcement))
             \* the first scanned index holding a binary byte, if any: the loop
             \* returns there
             binary_seen == \E i \in 1..max_check : is_binary(data[i])
             is_identifier_v == \A i \in 1..max_check : is_identifier(data[i])
         IN  IF binary_seen THEN "block_base64"
             ELSE IF Len(data) >= wp.limit_for_block_enforcement THEN "block"
             ELSE IF is_identifier_v THEN "identifier"
             ELSE "string"

RECURSIVE write_string_loop(_, _)
write_string_loop(data, i) ==
    IF i > Len(data) THEN <<>>
    ELSE LET ch == data[i]
             out == IF is_escape_character_marker(ch) THEN <<c_backslash, c_backslash>>
                    ELSE IF is_string_marker(ch) THEN <<c_backslash, c_double_quote>>
                    ELSE IF is_newline(ch) THEN <<c_backslash, to_escaped_character(ch)>>
                    ELSE <<ch>>
         IN  out \o write_string_loop(data, i + 1)

write_string(data) == <<c_double_quote>> \o write_string_loop(data, 1) \o <<c_double_quote>>

RECURSIVE write_block_loop(_, _, _, _)
write_block_loop(wp, data, current_depth, i) ==
    IF i > Len(data) THEN <<>>
    ELSE LET ch == data[i]
             out == IF i = 1 /\ is_whitespace(ch) THEN <<c_backslash, ch>>
                    ELSE IF is_escape_character_marker(ch) THEN <<c_backslash, c_backslash>>
                    ELSE IF ch = c_newline
                    THEN write_newline \o write_indentation(wp, current_depth + 1)
                    ELSE IF ch = c_carriage_return
                    THEN <<c_backslash, to_escaped_character(ch)>>
                    ELSE <<ch>>
         IN  out \o write_block_loop(wp, data, current_depth, i + 1)

write_block(wp, data, current_depth) ==
    <<c_block_data_open>> \o write_newline
    \o (IF Len(data) # 0
        THEN write_indentation(wp, current_depth + 1)
             \o write_block_loop(wp, data, current_depth, 1) \o write_newline
        ELSE <<>>)
    \o write_indentation(wp, current_depth) \o <<c_block_data_close>>

\* the for loop over the aligned 3-byte groups; i is the C index
RECURSIVE write_base64_loop(_, _, _, _, _, _)
write_base64_loop(wp, data, current_depth, i, characters_written, max_aligned_characters) ==
    IF i < max_aligned_characters
    THEN LET result == convert_to_base64_fragment(3, SubSeq(data, i + 1, i + 3), c_nullchar)
             written == characters_written + 4
             break == written >= wp.base64_per_line /\ i + 1 < max_aligned_characters
         IN  result
             \o (IF break
                 THEN write_newline \o write_indentation(wp, current_depth + 1)
                 ELSE <<>>)
             \o write_base64_loop(wp, data, current_depth, i + 3,
                                  IF break THEN 0 ELSE written, max_aligned_characters)
    ELSE <<>>

\* `after` is the byte at data.data()[data.size()], which the 1-byte
\* fragment reads: the terminator of a std::string
write_base64(wp, data, after, current_depth) ==
    LET size == Len(data)
        max_aligned_characters == size - (size % 3)
        remainder == size % 3
    IN  <<c_block_data_open, c_space>> \o base64_codec \o write_newline
        \o (IF size # 0
            THEN write_indentation(wp, current_depth + 1)
                 \o write_base64_loop(wp, data, current_depth, 0, 0, max_aligned_characters)
                 \o (IF remainder # 0
                     THEN convert_to_base64_fragment(remainder,
                              SubSeq(data, size - remainder + 1, size), after)
                     ELSE <<>>)
                 \o write_newline
            ELSE <<>>)
        \o write_indentation(wp, current_depth) \o <<c_block_data_close>>

write_data(wp, data, current_depth) ==
    LET type == determine_data_type(wp, data)
    IN  <<c_space>>
        \o CASE type = "identifier" -> data
             [] type = "string" -> write_string(data)
             [] type = "block" -> write_block(wp, data, current_depth)
             [] type = "block_base64" -> write_base64(wp, data, c_nullchar, current_depth)

RECURSIVE write_data_all(_, _, _, _)
write_data_all(wp, data, current_depth, i) ==
    IF i > Len(data) THEN <<>>
    ELSE write_data(wp, data[i], current_depth) \o write_data_all(wp, data, current_depth, i + 1)

RECURSIVE write_node(_, _, _)
RECURSIVE write_children(_, _, _, _)
write_children(wp, children, current_depth, i) ==
    IF i > Len(children) THEN <<>>
    ELSE write_node(wp, children[i], current_depth) \o write_children(wp, children, current_depth, i + 1)

write_node(wp, node, current_depth) ==
    (IF current_depth > 0
     THEN write_indentation(wp, current_depth - 1)
          \o (IF Len(node.children) # 0 THEN <<c_nested_node_marker>> ELSE <<>>)
          \o (IF determine_identifier_type(node.id) = "identifier"
              THEN node.id ELSE write_string(node.id))
          \o write_data_all(wp, node.data, current_depth - 1, 1)
          \o write_newline
     ELSE <<>>)
    \o write_children(wp, node.children, current_depth + 1, 1)
    \o (IF current_depth > 0 /\ Len(node.children) # 0
        THEN write_indentation(wp, current_depth - 1) \o <<c_nested_node_marker>>
             \o write_newline
        ELSE <<>>)

write_to_string(source, wp) == write_node(wp, source, 0)

\* The writer on a document_view: a value is the slice d of the buffer buf,
\* and data.data()[data.size()] is the byte of buf behind the slice (the
\* terminator of the std::string when the slice ends the buffer).
write_data_view(wp, buf, d, current_depth) ==
    LET data == view_bytes(buf, d)
        after == IF d.off + d.len < Len(buf) THEN buf[d.off + d.len + 1] ELSE c_nullchar
        type == determine_data_type(wp, data)
    IN  <<c_space>>
        \o CASE type = "identifier" -> data
             [] type = "string" -> write_string(data)
             [] type = "block" -> write_block(wp, data, current_depth)
             [] type = "block_base64" -> write_base64(wp, data, after, current_depth)

RECURSIVE write_data_all_view(_, _, _, _, _)
write_data_all_view(wp, buf, data, current_depth, i) ==
    IF i > Len(data) THEN <<>>
    ELSE write_data_view(wp, buf, data[i], current_depth)
         \o write_data_all_view(wp, buf, data, current_depth, i + 1)

RECURSIVE write_node_view(_, _, _, _)
RECURSIVE write_children_view(_, _, _, _, _)
write_children_view(wp, buf, children, current_depth, i) ==
    IF i > Len(children) THEN <<>>
    ELSE write_node_view(wp, buf, children[i], current_depth)
         \o write_children_view(wp, buf, children, current_depth, i + 1)

write_node_view(wp, buf, node, current_depth) ==
    (IF current_depth > 0
     THEN write_indentation(wp, current_depth - 1)
          \o (IF Len(node.children) # 0 THEN <<c_nested_node_marker>> ELSE <<>>)
          \o (IF determine_identifier_type(view_bytes(buf, node.id)) = "identifier"
              THEN view_bytes(buf, node.id) ELSE write_string(view_bytes(buf, node.id)))
          \o write_data_all_view(wp, buf, node.data, current_depth - 1, 1)
          \o write_newline
     ELSE <<>>)
    \o write_children_view(wp, buf, node.children, current_depth + 1, 1)
    \o (IF current_depth > 0 /\ Len(node.children) # 0
        THEN write_indentation(wp, current_depth - 1) \o <<c_nested_node_marker>>
             \o write_newline
        ELSE <<>>)

write_to_string_view(buf, source, wp) == write_node_view(wp, buf, source, 0)

(***************************************************************************)
(* The client program: it writes a document and loads the text, or loads   *)
(* a given text with both parsers.                                         *)
(***************************************************************************)
VARIABLES
    pc,               \* the client's next step
    tree,             \* the document handed to write_to_string
    param,            \* the writer_parameters
    source,           \* the source text: given, or written from tree
    recursion_limit,  \* parser_document::recursion_limit
    error_limit,      \* parser_document::error_limit at the start of a parse
    owned,            \* load(source): [done, p, node]
    viewed,           \* load_view(copy of source): [done, p, node]
    crlf,             \* load(source with every LF replaced by CR LF)
    input,            \* the argument of a library function called on its own
    output            \* what that function returned

vars == <<pc, tree, param, source, recursion_limit, error_limit, owned, viewed, crlf,
          input, output>>

\* ---- bounds of the model ----
MaxTokens == 4
MaxNewlineTokens == 4
MaxLimitTokens == 5
MaxRecursionLimit == 2
MaxErrorLimit == 2
MaxChildren == 1
MaxValueLen == 3
MaxLimit == 2
MaxBase64Len == 4
MaxIntoTokens == 3
MaxMergeLen == 1
MaxIntegerLen == 4
MaxBlockLines == 3
MaxDecodeLen == 5
MaxNestingLines == 4
MaxFoldLen == 6
MaxQuotaTokens == 3
MaxTextLen == 3
MaxCommentWords == 3
MaxReadTokens == 3
MaxRewriteTokens == 4

\* the pieces a source text is assembled from
Tokens ==
    { <<110>>, <<c_space>>, <<c_newline>>, <<c_carriage_return>>,
      <<c_nested_node_marker>>, <<c_double_quote>>, <<c_block_data_open>>,
      <<c_block_data_close>>, <<c_backslash>>, <<c_end_of_data_context>>,
      <<c_block_data_open>> \o base64_codec \o <<c_newline>>,
      <<110, 110, 61, 61>> }

\* pieces without a carriage return, with block headers and comment markers
\* so that blocks of several lines and comments arise
NewlineTokens ==
    { <<110>>, <<c_space>>, <<c_newline>>, <<c_nested_node_marker>>,
      <<c_double_quote>>, <<c_backslash>>, <<c_block_data_close>>,
      <<110, c_block_data_open, c_newline>>,
      <<110, c_block_data_open>> \o base64_codec \o <<c_newline>>,
      <<c_comment_marker, c_comment_marker>>,
      <<c_comment_marker, c_comment_multiline_marker>>,
      <<c_comment_multiline_marker, c_comment_marker>> }

\* pieces of nested nodes and of malformed text
LimitTokens ==
    { <<c_nested_node_marker, 110>>, <<c_newline>>, <<c_nested_node_marker>>,
      <<110>>, <<c_block_data_close>> }

\* sequences of at most n elements of S
SeqUpTo(S, n) == UNION { [1..k -> S] : k \in 0..n }

RECURSIVE Concat(_)
Concat(ts) == IF Len(ts) = 0 THEN <<>> ELSE Head(ts) \o Concat(Tail(ts))

Range(s) == { s[i] : i \in 1..Len(s) }

RECURSIVE to_crlf(_)
to_crlf(s) ==
    IF Len(s) = 0 THEN <<>>
    ELSE (IF Head(s) = c_newline THEN <<c_carriage_return, c_newline>> ELSE <<Head(s)>>)
         \o to_crlf(Tail(s))

Unloaded ==
    [done |-> FALSE, p |-> nepeta_parser(<<>>, FALSE, 0, 0), node |-> empty_document]

default_writer_parameters ==
    writer_parameters("tabs", 1, default_limit_for_block_enforcement,
                      default_limit_for_checking_binary, default_base64_per_line)

NothingCalled ==
    /\ input = <<>>
    /\ output = <<>>

NothingLoaded ==
    /\ owned = Unloaded
    /\ viewed = Unloaded
    /\ crlf = Unloaded
    /\ NothingCalled

Init ==
    /\ pc = "load"
    /\ tree = empty_document
    /\ param = default_writer_parameters
    /\ \E n \in 0..MaxTokens : \E ts \in [1..n -> Tokens] : source = Concat(ts)
    /\ recursion_limit = default_recursion_limit
    /\ error_limit = default_maximum_error_limit
    /\ NothingLoaded

\* sources with LF line ends only
InitNewline ==
    /\ pc = "load"
    /\ tree = empty_document
    /\ param = default_writer_parameters
    /\ \E n \in 0..MaxNewlineTokens : \E ts \in [1..n -> NewlineTokens] :
          source = Concat(ts)
    /\ recursion_limit = default_recursion_limit
    /\ error_limit = default_maximum_error_limit
    /\ NothingLoaded

\* parser_document with a configured recursion_limit and error_limit
InitLimits ==
    /\ pc = "load"
    /\ tree = empty_document
    /\ param = default_writer_parameters
    /\ \E n \in 0..MaxLimitTokens : \E ts \in [1..n -> LimitTokens] :
          source = Concat(ts)
    /\ recursion_limit \in 1..MaxRecursionLimit
    /\ error_limit \in 0..MaxErrorLimit
    /\ NothingLoaded

\* the header n{ of a node with one text block
BlockHeader == <<110, c_block_data_open, c_newline>>

\* lines of a block: a closing marker or the byte n behind no, one or two
\* bytes of whitespace, and the empty line
BlockPieces ==
    { <<c_block_data_close>>, <<c_space, c_block_data_close>>,
      <<c_space, c_space, c_block_data_close>>, <<c_tab, c_block_data_close>>,
      <<110>>, <<c_space, 110>>, <<c_space, c_space, 110>>, <<>> }

\* a block header followed by a few lines, each ended by LF; input keeps the
\* lines
InitBlock ==
    /\ pc = "load"
    /\ tree = empty_document
    /\ param = default_writer_parameters
    /\ input \in SeqUpTo(BlockPieces, MaxBlockLines)
    /\ source = BlockHeader
                  \o Concat([i \in 1..Len(input) |-> input[i] \o <<c_newline>>])
    /\ recursion_limit = default_recursion_limit
    /\ error_limit = default_maximum_error_limit
    /\ output = <<>>
    /\ owned = Unloaded /\ viewed = Unloaded /\ crlf = Unloaded

\* the documents handed to the writer
WriterIds == { <<110>>, <<>>, <<110, c_space>>, <<c_comment_marker, c_comment_marker>> }

WriterValues ==
    { <<>>, <<110>>, <<c_space>>, <<c_block_data_close>>, <<1>>,
      <<110, c_newline, 110>>, <<110, 110, 61>>, <<c_double_quote, c_backslash>> }

WriterData == { <<>> } \cup { <<v>> : v \in WriterValues } \cup { <<<<110>>, <<>>>> }

WriterLeaves == [id : WriterIds, data : WriterData, children : { <<>> }]

WriterNodes ==
    WriterLeaves \cup
    [id : WriterIds, data : { <<>> }, children : { <<l>> : l \in WriterLeaves }]

WriterParameters ==
    { writer_parameters(ind[1], ind[2], lim, default_limit_for_checking_binary,
                        default_base64_per_line) :
        ind \in { <<"tabs", 1>>, <<"spaces", 2>> },
        lim \in { 2, default_limit_for_block_enforcement } }

InitWriter ==
    /\ pc = "write"
    /\ \E n \in 0..MaxChildren : \E cs \in [1..n -> WriterNodes] :
          tree = [id |-> <<>>, data |-> <<>>, children |-> cs]
    /\ param \in WriterParameters
    /\ source = <<>>
    /\ recursion_limit = default_recursion_limit
    /\ error_limit = default_maximum_error_limit
    /\ NothingLoaded

\* one value, as the data of a node or as its id, under small limits
ValueBytes == { 110, c_space, c_newline, c_carriage_return, 1, c_nested_node_marker, 200 }

Values == UNION { [1..n -> ValueBytes] : n \in 0..MaxValueLen }

InitData ==
    /\ pc = "write"
    /\ \E v \in Values :
          \/ tree = [id |-> <<>>, data |-> <<>>, children |->
                        << [id |-> <<110>>, data |-> <<v>>, children |-> <<>>] >>]
          \/ tree = [id |-> <<>>, data |-> <<>>, children |->
                        << [id |-> v, data |-> <<>>, children |-> <<>>] >>]
    /\ \E lb \in 0..MaxLimit, lc \in 0..MaxLimit :
          param = writer_parameters("tabs", 1, lb, lc, default_base64_per_line)
    /\ source = <<>>
    /\ recursion_limit = default_recursion_limit
    /\ error_limit = default_maximum_error_limit
    /\ NothingLoaded

\* the parser and the writer at rest, while a library function is called
Idle ==
    /\ tree = empty_document
    /\ param = default_writer_parameters
    /\ source = <<>>
    /\ recursion_limit = default_recursion_limit
    /\ error_limit = default_maximum_error_limit
    /\ owned = Unloaded
    /\ viewed = Unloaded
    /\ crlf = Unloaded

IdleUnchanged ==
    UNCHANGED <<tree, param, source, recursion_limit, error_limit, owned, viewed, crlf>>

\* the bytes of a binary value: zero, a control byte, '=', a letter, 0xFF
Base64Bytes == { 0, 1, base64_padding_character, 110, 255 }

\* a non-empty std::string handed to write_base64
InitBase64 ==
    /\ pc = "encode"
    /\ \E n \in 1..MaxBase64Len : input \in [1..n -> Base64Bytes]
    /\ output = <<>>
    /\ Idle

\* the characters write_base64 puts between the block header and the
\* closing line: convert_to_base64_fragment<3> per full group, then the
\* padded fragment of the remainder; data.data()[data.size()] of a
\* std::string is its terminator
base64_text(wp, data) ==
    LET size == Len(data)
        max_aligned_characters == size - (size % 3)
        remainder == size % 3
    IN  write_base64_loop(wp, data, 0, 0, 0, max_aligned_characters)
        \o (IF remainder # 0
            THEN convert_to_base64_fragment(remainder,
                     SubSeq(data, size - remainder + 1, size), c_nullchar)
            ELSE <<>>)

EncodeBase64 ==
    /\ pc = "encode"
    /\ output' = [text |-> base64_text(param, input)]
    /\ pc' = "decode"
    /\ UNCHANGED input
    /\ IdleUnchanged

\* convert_from_base64(text.data(), text.size()) on the written characters
DecodeBase64 ==
    /\ pc = "decode"
    /\ output' = Bind([c \in {convert_from_base64(output.text)} |->
                      [text |-> output.text, decoded |-> SubSeq(c.s, 1, c.n), size |-> c.n]])
    /\ pc' = "decoded"
    /\ UNCHANGED input
    /\ IdleUnchanged

\* the bytes A 9 = , . + _, a space and 0xFF
DecodeBytes == { 65, 57, base64_padding_character, 44, 46, 43, 95, c_space, 255 }

\* nothing, or one group AAAA before the bytes
DecodeStarts == { <<>>, <<65, 65, 65, 65>> }

\* any bytes handed to the decoder
InitDecode ==
    /\ pc = "decode_text"
    /\ \E start \in DecodeStarts, rest \in SeqUpTo(DecodeBytes, MaxDecodeLen) :
          input = start \o rest
    /\ output = <<>>
    /\ Idle

\* convert_from_base64(input.data(), input.size()): the buffer after the
\* call and the size returned
DecodeText ==
    /\ pc = "decode_text"
    /\ output' = Bind([c \in {convert_from_base64(input)} |->
                      [buffer |-> c.s, size |-> c.n]])
    /\ pc' = "text_decoded"
    /\ UNCHANGED input
    /\ IdleUnchanged

\* documents that already have content: an id, data, children with
\* subtrees
IntoDocuments ==
    { empty_document,
      [id |-> <<107>>, data |-> << <<118>> >>, children |-> <<>>],
      [id |-> <<>>, data |-> <<>>, children |->
          << [id |-> <<97>>, data |-> << <<>>, <<118>> >>, children |-> <<>>] >>],
      [id |-> <<107>>, data |-> << <<118>>, <<119>> >>, children |->
          << [id |-> <<97>>, data |-> <<>>, children |->
                 << [id |-> <<98>>, data |-> <<>>, children |-> <<>>] >>],
             [id |-> <<99>>, data |-> << <<118>> >>, children |-> <<>>] >>] }

\* the document_view of the same shape, whose slices refer to the buffer of
\* an earlier load_into_view: byte i of that buffer is the one-byte value i
RECURSIVE view_of_document(_)
view_of_document(doc) ==
    LET slice(v) == [off |-> IF Len(v) = 0 THEN 0 ELSE v[1], len |-> Len(v)]
    IN  [id |-> slice(doc.id),
         data |-> [i \in 1..Len(doc.data) |-> slice(doc.data[i])],
         children |-> [i \in 1..Len(doc.children) |-> view_of_document(doc.children[i])]]

\* pieces of flat and nested nodes with data
IntoTokens ==
    { <<110>>, <<c_space>>, <<c_newline>>, <<c_nested_node_marker>>,
      <<c_nested_node_marker, 110>>, <<c_double_quote>> }

InitInto ==
    /\ pc = "load_into"
    /\ tree \in IntoDocuments
    /\ param = default_writer_parameters
    /\ \E n \in 0..MaxIntoTokens : \E ts \in [1..n -> IntoTokens] : source = Concat(ts)
    /\ recursion_limit = default_recursion_limit
    /\ error_limit = default_maximum_error_limit
    /\ NothingLoaded

\* nepeta::load_into(tree, source, error_handler)
LoadInto ==
    /\ pc = "load_into"
    /\ owned' = [done |-> TRUE] @@ load_into(tree, source, recursion_limit, error_limit)
    /\ pc' = "loaded_into"
    /\ UNCHANGED <<tree, param, source, recursion_limit, error_limit, viewed, crlf,
                   input, output>>

\* nepeta::load_into_view(view, copy, error_handler) on a mutable copy of
\* source
LoadIntoView ==
    /\ pc = "loaded_into"
    /\ ~viewed.done
    /\ viewed' = [done |-> TRUE]
                    @@ load_into_view(view_of_document(tree), source,
                                      recursion_limit, error_limit)
    /\ UNCHANGED <<pc, tree, param, source, recursion_limit, error_limit, owned, crlf,
                   input, output>>

MergeChildren ==
    { [id |-> <<97>>, data |-> << <<118>> >>, children |-> <<>>],
      [id |-> <<98>>, data |-> <<>>, children |->
          << [id |-> <<99>>, data |-> <<>>, children |-> <<>>] >>] }

MergeDocuments ==
    [id : { <<>>, <<107>> },
     data : SeqUpTo({ <<118>>, <<119, 119>> }, MaxMergeLen),
     children : SeqUpTo(MergeChildren, MaxMergeLen)]

\* two documents, distinct objects
InitMerge ==
    /\ pc = "merge"
    /\ input \in [doc : MergeDocuments, other : MergeDocuments]
    /\ output = <<>>
    /\ Idle

\* nepeta::merge(doc, other)
MergeCopy ==
    /\ pc = "merge"
    /\ output' = merge(input.doc, input.other)
    /\ pc' = "merged"
    /\ UNCHANGED input
    /\ IdleUnchanged

\* nepeta::merge(doc, std::move(other))
MergeMove ==
    /\ pc = "merge"
    /\ output' = merge_move(input.doc, input.other)
    /\ pc' = "merged_moving"
    /\ UNCHANGED input
    /\ IdleUnchanged

\* int8_t, uint8_t, int16_t, uint16_t and int32_t
IntegerTypes ==
    { [bits |-> 8, signed |-> TRUE], [bits |-> 8, signed |-> FALSE],
      [bits |-> 16, signed |-> TRUE], [bits |-> 16, signed |-> FALSE],
      [bits |-> int_width, signed |-> TRUE] }

\* the bytes - + ' 0 1 9 x
IntegerBytes == { c_minus_sign, c_plus_sign, c_single_quote, 48, 49, 57, 120 }

\* the digits 214748364 of the largest int divided by ten, and a sign
\* before them
IntegerStarts ==
    { <<>>, <<50, 49, 52, 55, 52, 56, 51, 54, 52>>,
      <<c_minus_sign, 50, 49, 52, 55, 52, 56, 51, 54, 52>> }

\* a string of a few bytes, alone or after the long digits
InitInteger ==
    /\ pc = "convert"
    /\ \E T \in IntegerTypes, start \in IntegerStarts,
          rest \in SeqUpTo(IntegerBytes, MaxIntegerLen) :
          input = [type |-> T, view |-> start \o rest]
    /\ output = <<>>
    /\ Idle

\* what a call may return: after a signed overflow, whatever the build
\* makes of it
Returned(r) ==
    IF r.undefined
    THEN { [has_value |-> FALSE, value |-> 0] }
         \cup { [has_value |-> TRUE, value |-> v] : v \in { 0, 2147483647, -2147483647 } }
    ELSE { [has_value |-> r.has_value, value |-> r.value] }

\* nepeta::opt_integer<IntegerType>(view)
OptInteger ==
    /\ pc = "convert"
    /\ output' \in Returned(opt_integer(input.type, input.view))
    /\ pc' = "converted"
    /\ UNCHANGED input
    /\ IdleUnchanged

\* nepeta::write_to_string(tree, param)
Write ==
    /\ pc = "write"
    /\ source' = write_to_string(tree, param)
    /\ pc' = "load"
    /\ UNCHANGED <<tree, param, recursion_limit, error_limit, owned, viewed, crlf,
                 input, output>>

\* nepeta::load(source, error_handler)
Load ==
    /\ pc = "load"
    /\ owned' = [done |-> TRUE] @@ load(source, recursion_limit, error_limit)
    /\ pc' = "loaded"
    /\ UNCHANGED <<tree, param, source, recursion_limit, error_limit, viewed, crlf,
                 input, output>>

\* nepeta::load_view(copy, error_handler) on a mutable copy of source
LoadView ==
    /\ pc = "loaded"
    /\ ~viewed.done
    /\ viewed' = [done |-> TRUE] @@ load_view(source, recursion_limit, error_limit)
    /\ UNCHANGED <<pc, tree, param, source, recursion_limit, error_limit, owned, crlf,
                 input, output>>

\* nepeta::load of the same text with CR LF line ends
LoadCRLF ==
    /\ pc = "loaded"
    /\ ~crlf.done
    /\ crlf' = [done |-> TRUE] @@ load(to_crlf(source), recursion_limit, error_limit)
    /\ UNCHANGED <<pc, tree, param, source, recursion_limit, error_limit, owned, viewed,
                 input, output>>

\* a text parsed by the owned parser and by the view parser
Next == Load \/ LoadView

\* a text and its CR LF variant parsed by the owned parser
NextNewline == Load \/ LoadCRLF

NextWriter == Write \/ Load

NextData == Write \/ Load

Spec == Init /\ [][Next]_vars

SpecNewline == InitNewline /\ [][NextNewline]_vars

SpecLimits == InitLimits /\ [][Next]_vars

SpecWriter == InitWriter /\ [][NextWriter]_vars

SpecData == InitData /\ [][NextData]_vars

NextInto == LoadInto \/ LoadIntoView

SpecInto == InitInto /\ [][NextInto]_vars

NextMerge == MergeCopy \/ MergeMove

SpecMerge == InitMerge /\ [][NextMerge]_vars

SpecBlock == InitBlock /\ [][Next]_vars

NextInteger == OptInteger

SpecInteger == InitInteger /\ [][NextInteger]_vars

NextDecode == DecodeText

SpecDecode == InitDecode /\ [][NextDecode]_vars

NextBase64 == EncodeBase64 \/ DecodeBase64

SpecBase64 == InitBase64 /\ [][NextBase64]_vars

(***************************************************************************)
(* Properties.                                                             *)
(***************************************************************************)
Results == { owned, viewed, crlf }

SetMax(S) == CHOOSE x \in S : \A y \in S : y <= x

\* nesting depth of a tree, the root at depth 0
RECURSIVE Depth(_)
Depth(node) ==
    IF Len(node.children) = 0 THEN 0
    ELSE 1 + SetMax({ Depth(node.children[i]) : i \in 1..Len(node.children) })

\* C1: round trip. Loading the text written from a tree with empty root id
\* and root data, under any writer configuration with
\* indentation_characters >= 1, gives a tree equal to the one written.
RoundTrip ==
    (pc = "loaded" /\ owned.done /\ param.indentation_characters >= 1)
        => owned.node = tree

\* C2: the owned parser and the view parser, run on the same bytes, return
\* equal trees: same ids, same data sequences, same children in the same
\* order.
OwnedViewEqualTrees ==
    (owned.done /\ viewed.done)
        => document_of_view(viewed.p.source, viewed.node) = owned.node

\* a text whose values are unescaped or decoded in place by the view parser
OwnedViewEqualTreesWitness ==
    /\ owned.done /\ viewed.done
    /\ viewed.p.source # source
    /\ Len(owned.node.children) > 0
    /\ \E i \in 1..Len(owned.node.children) : Len(owned.node.children[i].data) > 0
    /\ document_of_view(viewed.p.source, viewed.node) = owned.node

\* C3: in one parse the sink is invoked at most error_limit times: once the
\* quota is 0 every further error() returns without invoking the sink, and
\* the quota never goes below 0.
ErrorQuota ==
    \A r \in Results :
        r.done => /\ Len(r.p.errs) <= error_limit
                  /\ Len(r.p.errs) = Min(r.p.error_calls, error_limit)
                  /\ r.p.error_limit >= 0
                  /\ r.p.error_limit = error_limit - Len(r.p.errs)

\* a parse in which error() was called after the quota had run out
ErrorQuotaWitness ==
    /\ owned.done /\ viewed.done
    /\ error_limit > 0
    /\ owned.p.error_limit = 0
    /\ owned.p.error_calls > error_limit
    /\ viewed.p.error_calls > error_limit
    /\ Len(owned.p.errs) = error_limit

\* C4: with recursion_limit L >= 1 the returned tree has nesting depth at
\* most L, the root at depth 0, and parse_node_body_context is never
\* entered with a recursion level >= L.
RecursionBound ==
    \A r \in Results :
        (r.done /\ recursion_limit >= 1)
            => /\ Depth(r.node) <= recursion_limit
               /\ r.p.max_recursion < recursion_limit

\* a text nested deeper than the limit: the tree is cut at depth L
RecursionBoundWitness ==
    /\ owned.done
    /\ recursion_limit = MaxRecursionLimit
    /\ Depth(owned.node) = recursion_limit
    /\ owned.p.max_recursion = recursion_limit - 1
    /\ \E i \in 1..Len(owned.p.errs) : owned.p.errs[i].type = recursion_limit_reached

\* C5: a source with LF line ends only and its variant with every LF
\* replaced by CR LF parse to equal trees; text block values hold a single
\* LF between lines in both.
NewlineVariantsEqual ==
    (owned.done /\ crlf.done /\ c_carriage_return \notin Range(source))
        => crlf.node = owned.node

\* a text block of two lines, read from the CR LF variant
NewlineVariantsEqualWitness ==
    /\ owned.done /\ crlf.done
    /\ c_carriage_return \notin Range(source)
    /\ crlf.p.source # source
    /\ \E i \in 1..Len(crlf.node.children) :
          crlf.node.children[i].data = << <<110, c_newline, 110>> >>
    /\ crlf.node = owned.node

\* C6: every parse terminates and returns a tree: each iteration of each
\* parser loop (node body, node data, string, block body, block line,
\* comment) advances the cursor or leaves the loop.
EveryLoopAdvances ==
    \A r \in Results : r.done => ~r.p.no_progress

\* a malformed text parsed to its end with several errors on the way
EveryLoopAdvancesWitness ==
    /\ owned.done /\ crlf.done
    /\ owned.p.error_calls >= 2
    /\ Len(owned.node.children) > 0
    /\ get_buffer_position(owned.p) >= Len(source)
    /\ \E i \in 1..Len(owned.p.errs) : owned.p.errs[i].type = illegal_character

\* the bytes of src found at (line, column), counted as the sink counts them
BytesAt(src, line, column) ==
    { src[q + 1] : q \in { o \in 0..(Len(src) - 1) :
          line_column_from_buffer_position(src, o) = [line |-> line, column |-> column] } }

OpeningByte(type) ==
    CASE type = node_not_closed -> c_nested_node_marker
      [] type = comment_not_closed -> c_comment_marker
      [] type = string_not_closed -> c_double_quote
      [] type = block_not_closed -> c_block_data_open

\* C7: every delivered error has line >= 1 and column >= 1; for
\* illegal_character, require_newline and invalid_escape the input byte at
\* the reported (line, column) is the reported byte; for node_not_closed,
\* comment_not_closed, string_not_closed and block_not_closed the byte there
\* is the opening byte of the unclosed construct.
ErrorPositions ==
    \A r \in { owned, viewed } :
        r.done =>
            \A i \in 1..Len(r.p.errs) :
                LET e == r.p.errs[i]
                IN  /\ e.line >= 1
                    /\ e.column >= 1
                    /\ e.type \in { illegal_character, require_newline, invalid_escape }
                          => e.ch \in BytesAt(source, e.line, e.column)
                    /\ e.type \in { node_not_closed, comment_not_closed,
                                    string_not_closed, block_not_closed }
                          => OpeningByte(e.type) \in BytesAt(source, e.line, e.column)

\* C8: the owned parser and the view parser deliver the same sequence of
\* errors: same kinds, bytes, lines and columns in the same order.
OwnedViewSameErrors ==
    (owned.done /\ viewed.done) => viewed.p.errs = owned.p.errs

\* identifier-safe: not binary, whitespace, newline or one of # " { } \ ;
IdentifierSafe(v) ==
    /\ Len(v) > 0
    /\ \A i \in 1..Len(v) :
          /\ ~(v[i] < 32)
          /\ v[i] \notin { 32, 9, 10, 13, 35, 34, 123, 125, 92, 59 }

\* C9: determine_data_type returns identifier only for a non-empty value
\* whose bytes are all identifier-safe, and an id is written raw by
\* write_node only if it is such a value.
IdentifierOnlyIfSafe ==
    pc = "load" =>
        LET child == tree.children[1]
        IN  /\ \A i \in 1..Len(child.data) :
                  (determine_data_type(param, child.data[i]) = "identifier"
                   \/ source = child.id \o <<c_space>> \o child.data[i] \o write_newline)
                      => IdentifierSafe(child.data[i])
            /\ (Len(child.data) = 0 /\ source = child.id \o write_newline)
                  => IdentifierSafe(child.id)

BinaryByte(b) == b < 32 /\ b \notin { 9, 10, 13 }

Base64Header == <<110, c_space, c_block_data_open, c_space>> \o base64_codec \o write_newline

EmittedAsBase64 ==
    Len(source) >= Len(Base64Header) /\ SubSeq(source, 1, Len(Base64Header)) = Base64Header

\* C10: a non-empty data value is emitted as a base64 block iff one of its
\* first min(len, max(limit_for_checking_binary, limit_for_block_enforcement))
\* bytes is binary; an empty value is emitted as the string "".
Base64IffBinaryScanned ==
    (pc = "load" /\ Len(tree.children[1].data) = 1) =>
        LET v == tree.children[1].data[1]
            scanned == Min(Len(v), Max(param.limit_for_checking_binary,
                                       param.limit_for_block_enforcement))
        IN  IF Len(v) = 0
            THEN source = <<110, c_space, c_double_quote, c_double_quote>> \o write_newline
            ELSE EmittedAsBase64 <=> \E i \in 1..scanned : BinaryByte(v[i])

\* a value whose only binary byte is the last one scanned, found through
\* limit_for_block_enforcement
Base64IffBinaryScannedWitness ==
    /\ pc = "load" /\ Len(tree.children[1].data) = 1
    /\ LET v == tree.children[1].data[1]
       IN  /\ Len(v) = 3
           /\ ~BinaryByte(v[1]) /\ BinaryByte(v[2]) /\ ~BinaryByte(v[3])
           /\ param.limit_for_checking_binary = 0
           /\ param.limit_for_block_enforcement = 2
           /\ EmittedAsBase64

\* C11: base64 round trip. For every non-empty byte string x, of every
\* length, the characters the writer emits for x decode in place to
\* exactly |x| bytes, the bytes of x.
Base64RoundTrip ==
    pc = "decoded" => (output.size = Len(input) /\ output.decoded = input)

\* the last n elements of a sequence
Suffix(seq, n) == SubSeq(seq, Len(seq) - n + 1, Len(seq))

\* C12: a stray closing marker at the outermost level is reported as
\* too_many_node_closing_markers at the position of its `#` and is otherwise
\* ignored: the node headers of the text after it are still parsed and are
\* the last children of the root.
StrayMarkerIgnored ==
    owned.done =>
        \A i \in 1..Len(owned.p.errs) :
            owned.p.errs[i].type = too_may_node_closing_markers =>
                LET at == owned.p.errat[i]
                    after == load(SubSeq(source, at + 2, Len(source)),
                                  recursion_limit, error_limit).node.children
                IN  /\ source[at + 1] = c_nested_node_marker
                    /\ Len(owned.node.children) >= Len(after)
                    /\ Suffix(owned.node.children, Len(after)) = after

\* C13: load_into and load_into_view on a document that already has
\* content only append: its id, its data and its earlier children with
\* their subtrees are unchanged and keep their positions, and the children
\* parsed from the source follow them in source order.
LoadIntoAppends ==
    /\ owned.done =>
          /\ owned.node.id = tree.id
          /\ owned.node.data = tree.data
          /\ owned.node.children
                = tree.children
                  \o load(source, recursion_limit, error_limit).node.children
    /\ viewed.done =>
          /\ viewed.node.id = view_of_document(tree).id
          /\ viewed.node.data = view_of_document(tree).data
          /\ viewed.node.children
                = view_of_document(tree).children
                  \o load_view(source, recursion_limit, error_limit).node.children

\* a document with data and nested children that gained a nested node
LoadIntoAppendsWitness ==
    /\ owned.done /\ viewed.done
    /\ Len(tree.data) = 2 /\ Len(tree.children) = 2
    /\ Len(owned.node.children) = 3
    /\ Len(viewed.node.children) = 3
    /\ Len(owned.node.children[3].children) > 0

\* the id and data slices of a document_view and of its subtrees
RECURSIVE Slices(_)
Slices(node) ==
    { node.id } \cup { node.data[i] : i \in 1..Len(node.data) }
    \cup UNION { Slices(node.children[i]) : i \in 1..Len(node.children) }

\* the offsets of the bytes a slice covers
Covered(v) == v.off .. (v.off + v.len - 1)

\* C14: every id and data slice of the tree the view parser returns lies
\* inside the caller's buffer (0 <= offset, offset + length <= size), and
\* two slices that are not the identical slice share no byte.
SlicesInsideBuffer ==
    viewed.done =>
        /\ \A v \in Slices(viewed.node) :
              v.off >= 0 /\ v.off + v.len <= Len(source)
        /\ \A v, w \in Slices(viewed.node) :
              v # w => Covered(v) \cap Covered(w) = {}

MatchesIntegerGrammar(view) ==
    \A i \in 1..Len(view) :
        \/ i = 1 /\ view[i] \in { c_minus_sign, c_plus_sign }
        \/ view[i] \in 48..57
        \/ view[i] = c_single_quote

\* the longest prefix of view that matches the grammar
RECURSIVE GrammarPrefix(_, _)
GrammarPrefix(view, n) ==
    IF n < Len(view) /\ MatchesIntegerGrammar(SubSeq(view, 1, n + 1))
    THEN GrammarPrefix(view, n + 1)
    ELSE SubSeq(view, 1, n)

IsDigit(ch) == ch \in 48..57

DigitsOf(view) == SelectSeq(view, IsDigit)

\* the decimal value of digits modulo 2^32, as two halves of 16 bits,
\* starting from the value [hi, lo]
RECURSIVE DecimalHalves(_, _, _)
DecimalHalves(digits, hi, lo) ==
    IF Len(digits) = 0 THEN [hi |-> hi, lo |-> lo]
    ELSE LET low == lo * 10 + (Head(digits) - 48)
         IN  DecimalHalves(Tail(digits), (hi * 10 + low \div 65536) % 65536, low % 65536)

\* the negation modulo 2^32
NegatedHalves(h) ==
    IF h.lo = 0 THEN [hi |-> (65536 - h.hi) % 65536, lo |-> 0]
    ELSE [hi |-> 65535 - h.hi, lo |-> 65536 - h.lo]

\* the value modulo 2^bits, read as a value of the type
HalvesInType(T, h) ==
    IF T.bits = 32
    THEN (IF h.hi >= 32768 THEN (h.hi - 65536) * 65536 ELSE h.hi * 65536) + h.lo
    ELSE LET low == h.lo % (2 ^ T.bits)
         IN  IF T.signed /\ low >= 2 ^ (T.bits - 1) THEN low - 2 ^ T.bits ELSE low

\* the decimal value of the digits of view, negated after a leading '-',
\* modulo 2^bits
ModularValue(T, view) ==
    LET h == DecimalHalves(DigitsOf(view), 0, 0)
    IN  HalvesInType(T, IF Len(view) > 0 /\ view[1] = c_minus_sign
                        THEN NegatedHalves(h) ELSE h)

\* whether the digits exceed the largest int before the last of them is
\* read
RECURSIVE ExceedsInt(_, _)
ExceedsInt(digits, value) ==
    IF Len(digits) = 0 THEN FALSE
    ELSE LET d == Head(digits) - 48
         IN  IF value > (2147483647 - d) \div 10 THEN TRUE
             ELSE ExceedsInt(Tail(digits), value * 10 + d)

LimitReachedOnlyNested ==
    \A r \in Results :
        r.done =>
            \A i \in 1..Len(r.p.errs) :
                r.p.errs[i].type = recursion_limit_reached
                    => source[r.p.errat[i] + 1] = c_nested_node_marker

\* the source without the two bytes before position at + 1: a backslash and
\* the byte after it
WithoutEscape(s, at) == SubSeq(s, 1, at - 1) \o SubSeq(s, at + 2, Len(s))

InvalidEscapes(p) == { i \in 1..Len(p.errs) : p.errs[i].type = invalid_escape }

\* C18: when `\` is followed by a byte b that is not in the escape table,
\* invalid_escape is reported with b at b's position and neither the
\* backslash nor b adds a byte to the value: the tree is the tree of the
\* source without the two bytes.  (b a byte of the line, the only invalid
\* escape of the source, and no `}` after it that would become the first
\* byte of its line.)
InvalidEscapeAppendsNothing ==
    owned.done =>
        \A i \in InvalidEscapes(owned.p) :
            LET at == owned.p.errat[i]
            IN  (/\ Cardinality(InvalidEscapes(owned.p)) = 1
                 /\ at < Len(source)
                 /\ ~is_newline(source[at + 1])
                 /\ (at + 1 < Len(source) => source[at + 2] # c_block_data_close))
                    => /\ source[at] = c_backslash
                       /\ owned.p.errs[i].ch = source[at + 1]
                       /\ owned.node
                            = load(WithoutEscape(source, at),
                                   recursion_limit, error_limit).node

\* the number of whitespace bytes a line starts with
RECURSIVE LeadingWhitespace(_)
LeadingWhitespace(line) ==
    IF Len(line) > 0 /\ is_whitespace(Head(line))
    THEN 1 + LeadingWhitespace(Tail(line)) ELSE 0

\* the indentation D of a block: that of its first line
BlockDepth(ls) == LeadingWhitespace(ls[1])

\* the indentation bytes stripped from line k: at most D
Stripped(ls, k) == Min(LeadingWhitespace(ls[k]), BlockDepth(ls))

\* line k after its stripped indentation
Rest(ls, k) == SubSeq(ls[k], Stripped(ls, k) + 1, Len(ls[k]))

StartsWithClose(ls, k) == Len(Rest(ls, k)) > 0 /\ Head(Rest(ls, k)) = c_block_data_close

\* a closing marker on the first line or behind fewer than D indentation
\* bytes
ClosesBlock(ls, k) ==
    StartsWithClose(ls, k) /\ (k = 1 \/ Stripped(ls, k) < BlockDepth(ls))

\* a closing marker behind the full indentation of a later line
IsBadClose(ls, k) ==
    k > 1 /\ StartsWithClose(ls, k) /\ Stripped(ls, k) = BlockDepth(ls)

\* the number of lines before the one that closes the block
RECURSIVE LinesOfBlock(_, _)
LinesOfBlock(ls, n) ==
    IF n < Len(ls) /\ ~ClosesBlock(ls, n + 1) THEN LinesOfBlock(ls, n + 1) ELSE n

\* the position of the first byte of line k in the source
RECURSIVE LineStart(_, _)
LineStart(ls, k) ==
    IF k = 1 THEN Len(BlockHeader) ELSE LineStart(ls, k - 1) + Len(ls[k - 1]) + 1

\* the first n lines without their indentation, LF between them
RECURSIVE BlockText(_, _)
BlockText(ls, n) ==
    IF n = 0 THEN <<>>
    ELSE IF n = 1 THEN Rest(ls, 1)
    ELSE BlockText(ls, n - 1) \o <<c_newline>> \o Rest(ls, n)

ErrorsAt(p, type) == { p.errat[i] : i \in { j \in 1..Len(p.errs) : p.errs[j].type = type } }

\* what C19 says of one parse of a block with the lines ls
BadCloseLiteral(p, node, ls) ==
    LET n == LinesOfBlock(ls, 0)
        bad == { k \in 1..n : IsBadClose(ls, k) }
    IN  bad # {} =>
            /\ ErrorsAt(p, bad_block_close)
                 = { LineStart(ls, k) + Stripped(ls, k) : k \in bad }
            /\ Len(node.children) >= 1
            /\ node.children[1].data = << BlockText(ls, n) >>
            /\ (ErrorsAt(p, block_not_closed) # {}) <=> (n = Len(ls))

ColumnZeroCloses ==
    \A k \in 1..Len(input) :
        (/\ owned.done
         /\ input[k] = <<c_block_data_close>>
         /\ \A j \in 1..(k - 1) : c_block_data_close \notin Range(input[j]))
            => /\ ErrorsAt(owned.p, block_not_closed) = {}
               /\ Len(owned.node.children) >= 1
               /\ owned.node.children[1].data = << BlockText(input, k - 1) >>

\* lines of a text block or of a base64 block: those of BlockPieces, a
\* line of two bytes and a line indented by three
CodecBlockPieces ==
    BlockPieces \cup { <<110, 110>>, <<c_space, c_space, c_tab, 110>> }

\* a block header with or without the base64 codec, followed by a few
\* lines, each ended by LF; input keeps the lines
InitCodecBlock ==
    /\ pc = "load"
    /\ tree = empty_document
    /\ param = default_writer_parameters
    /\ input \in SeqUpTo(CodecBlockPieces, MaxBlockLines)
    /\ \E header \in { BlockHeader, Base64Header } :
          source = header \o Concat([i \in 1..Len(input) |-> input[i] \o <<c_newline>>])
    /\ recursion_limit = default_recursion_limit
    /\ error_limit = default_maximum_error_limit
    /\ output = <<>>
    /\ owned = Unloaded /\ viewed = Unloaded /\ crlf = Unloaded

SpecCodecBlock == InitCodecBlock /\ [][Next]_vars

\* the first n lines without their indentation, nothing between them
RECURSIVE BlockLinesJoined(_, _)
BlockLinesJoined(ls, n) ==
    IF n = 0 THEN <<>> ELSE BlockLinesJoined(ls, n - 1) \o Rest(ls, n)

\* the value C21 gives a block closed after n lines
BlockValue(ls, n) ==
    IF EmittedAsBase64
    THEN Bind([c \in {convert_from_base64(BlockLinesJoined(ls, n))} |-> SubSeq(c.s, 1, c.n)])
    ELSE BlockText(ls, n)

\* C21: the value of a text block is its first line without the D
\* whitespace bytes it starts with, then for each further line before the
\* closing `}` one LF and the line without min(D, its leading whitespace)
\* bytes; no LF follows the last line, and for the base64 codec no LF is put
\* between the lines (the value is the decoding of the joined lines).
BlockIndentationStripped ==
    LET n == LinesOfBlock(input, 0)
    IN  n < Len(input) =>
            /\ owned.done
                 => /\ Len(owned.node.children) >= 1
                    /\ owned.node.children[1].data = << BlockValue(input, n) >>
            /\ viewed.done
                 => /\ Len(viewed.node.children) >= 1
                    /\ document_of_view(viewed.p.source, viewed.node).children[1].data
                         = << BlockValue(input, n) >>

\* a text block indented by two bytes whose second line is indented by
\* three: one of them stays
BlockIndentationStrippedWitness ==
    /\ owned.done /\ viewed.done
    /\ ~EmittedAsBase64
    /\ input = << <<c_space, c_space, 110>>, <<c_space, c_space, c_tab, 110>>,
                  <<c_block_data_close>> >>
    /\ owned.node.children[1].data = << <<110, c_newline, c_tab, 110>> >>
    /\ document_of_view(viewed.p.source, viewed.node) = owned.node

\* the 6-bit value of a byte as C22 gives it: A-Z, a-z, 0-9 in order, 62
\* for + and -, 63 for / and _, 0 for every other byte
AlphabetIndex(ch) ==
    IF ch >= 65 /\ ch <= 90 THEN ch - 65
    ELSE IF ch >= 97 /\ ch <= 122 THEN ch - 71
    ELSE IF ch >= 48 /\ ch <= 57 THEN ch + 4
    ELSE IF ch = 43 \/ ch = 45 THEN 62
    ELSE IF ch = 47 \/ ch = 95 THEN 63
    ELSE 0

\* the three bytes of a group of 2 to 4 characters, missing characters 0
GroupBytes(g) ==
    LET n == AlphabetIndex(g[1]) * 262144 + AlphabetIndex(g[2]) * 4096
             + (IF Len(g) >= 3 THEN AlphabetIndex(g[3]) * 64 ELSE 0)
             + (IF Len(g) >= 4 THEN AlphabetIndex(g[4]) ELSE 0)
    IN  << n \div 65536, (n \div 256) % 256, n % 256 >>

\* C22: in convert_from_base64 every byte outside A-Z, a-z, 0-9, + / - _
\* contributes the 6-bit value 0, + and - contribute 62, / and _ 63: the
\* bytes written for the first group of the input are those of these values.
OtherBytesDecodeToZero ==
    (pc = "text_decoded" /\ Len(input) >= 2) =>
        LET g == SubSeq(input, 1, Min(4, Len(input)))
        IN  SubSeq(output.buffer, 1, Len(g) - 1) = SubSeq(GroupBytes(g), 1, Len(g) - 1)

\* the number of padding characters the last aligned group of s ends in
PaddingOf(s, k) ==
    IF k = 0 \/ s[4 * k] # base64_padding_character THEN 0
    ELSE IF s[4 * k - 1] = base64_padding_character THEN 2
    ELSE 1

\* C23: for an input of 4k + r bytes convert_from_base64 returns 3k, minus
\* 1 if the last aligned group ends in exactly one `=`, minus 2 if it ends
\* in `==`, plus 0, 0, 1, 2 for r = 0, 1, 2, 3.
DecodedSize ==
    pc = "text_decoded" =>
        LET k == Len(input) \div 4
            r == Len(input) % 4
        IN  output.size = 3 * k - PaddingOf(input, k) + (IF r = 0 THEN 0 ELSE r - 1)

OpeningPositionErrors ==
    { string_not_closed, block_not_closed, comment_not_closed, node_not_closed,
      recursion_limit_reached }

NestingPieces ==
    { <<c_nested_node_marker, 110>>, <<c_space, c_nested_node_marker, 110>>,
      <<c_nested_node_marker, 110, c_space, 110>>, <<c_nested_node_marker>>, <<110>> }

\* the lines with LF between them
RECURSIVE JoinLines(_)
JoinLines(ls) ==
    IF Len(ls) = 0 THEN <<>>
    ELSE IF Len(ls) = 1 THEN ls[1]
    ELSE ls[1] \o <<c_newline>> \o JoinLines(Tail(ls))

\* a few lines of nested node headers and closing markers, the last line
\* with or without its LF; input keeps the lines
InitNesting ==
    /\ pc = "load"
    /\ tree = empty_document
    /\ param = default_writer_parameters
    /\ input \in SeqUpTo(NestingPieces, MaxNestingLines)
    /\ \E last \in { <<>>, <<c_newline>> } : source = JoinLines(input) \o last
    /\ recursion_limit = default_recursion_limit
    /\ error_limit = default_maximum_error_limit
    /\ output = <<>>
    /\ owned = Unloaded /\ viewed = Unloaded /\ crlf = Unloaded

SpecNesting == InitNesting /\ [][Next]_vars

\* the offsets of the `#` of the nodes still open after the lines from k
\* on, the innermost first; `open` holds those open before line k, which
\* starts at offset at.  A closing marker with no node open is ignored.
RECURSIVE OpenNodes(_, _, _, _)
OpenNodes(ls, k, at, open) ==
    IF k > Len(ls) THEN open
    ELSE LET line == ls[k]
             marker == IF Head(line) = c_space THEN 2 ELSE 1
         IN  OpenNodes(ls, k + 1, at + Len(line) + 1,
                       IF line = <<c_nested_node_marker>>
                       THEN (IF Len(open) > 0 THEN Tail(open) ELSE open)
                       ELSE IF line[marker] = c_nested_node_marker
                       THEN <<at + marker - 1>> \o open
                       ELSE open)

\* the offsets of the errors of one type, in the order of their delivery
RECURSIVE OffsetsOf(_, _, _)
OffsetsOf(p, type, i) ==
    IF i > Len(p.errs) THEN <<>>
    ELSE (IF p.errs[i].type = type THEN <<p.errat[i]>> ELSE <<>>)
         \o OffsetsOf(p, type, i + 1)

\* C25: if EOF is reached while k >= 1 nodes opened with `#` are still
\* open, exactly k node_not_closed errors are raised, one per open node, at
\* the position of its `#`, the innermost first; with no node open, none.
OpenNodesReported ==
    \A r \in { owned, viewed } :
        r.done => OffsetsOf(r.p, node_not_closed, 1) = OpenNodes(input, 1, 0, <<>>)

\* binary values: the byte 1, then a few bytes
FoldValues == { <<1>> \o rest : rest \in SeqUpTo({ 0, 255 }, MaxFoldLen) }

\* line widths of one, two and three groups and one in between
FoldWidths == { 1, 4, 5, 8, 12 }

\* a node with one binary value, written with a small base64_per_line
InitFold ==
    /\ pc = "write"
    /\ \E v \in FoldValues :
          tree = [id |-> <<>>, data |-> <<>>, children |->
                     << [id |-> <<110>>, data |-> <<v>>, children |-> <<>>] >>]
    /\ \E width \in FoldWidths :
          param = writer_parameters("tabs", 1, default_limit_for_block_enforcement,
                                    default_limit_for_checking_binary, width)
    /\ source = <<>>
    /\ recursion_limit = default_recursion_limit
    /\ error_limit = default_maximum_error_limit
    /\ NothingLoaded

SpecFold == InitFold /\ [][NextWriter]_vars

\* the lines of s: the bytes before each LF
RECURSIVE LinesOf(_, _)
LinesOf(s, line) ==
    IF Len(s) = 0 THEN (IF Len(line) = 0 THEN <<>> ELSE <<line>>)
    ELSE IF Head(s) = c_newline THEN <<line>> \o LinesOf(Tail(s), <<>>)
    ELSE LinesOf(Tail(s), Append(line, Head(s)))

\* the lines between the block header and the closing `}`, without the tab
\* of the body indentation
Base64BodyLines ==
    LET ls == LinesOf(source, <<>>)
    IN  [i \in 1..(Len(ls) - 2) |->
            IF Len(ls[i + 1]) > 0 /\ Head(ls[i + 1]) = c_tab
            THEN Tail(ls[i + 1]) ELSE ls[i + 1]]

RoundedUpToGroup(n) == ((n + 3) \div 4) * 4

\* C26: write_base64 breaks the line only after the line holds at least
\* base64_per_line characters and only if one more full 3-byte group
\* remains: no line of the body is empty, every line holds at most
\* base64_per_line rounded up to a multiple of 4 characters, every line
\* followed by another holds at least base64_per_line characters, and no
\* line after the first starts with the padded group of the remainder.
Base64LineBreaks ==
    (pc = "load" /\ EmittedAsBase64) =>
        LET body == Base64BodyLines
        IN  \A i \in 1..Len(body) :
                /\ Len(body[i]) > 0
                /\ Len(body[i]) <= RoundedUpToGroup(param.base64_per_line)
                /\ i < Len(body) => Len(body[i]) >= param.base64_per_line
                /\ (i > 1 /\ Len(body[i]) >= 4)
                      => body[i][4] # base64_padding_character

\* pieces of nested nodes, strings, escapes and blocks, and malformed text
QuotaTokens ==
    LimitTokens \cup { <<c_double_quote>>, <<c_backslash>>, <<c_block_data_open>> }

\* a short source parsed under a small error quota
InitQuota ==
    /\ pc = "load"
    /\ tree = empty_document
    /\ param = default_writer_parameters
    /\ \E ts \in SeqUpTo(QuotaTokens, MaxQuotaTokens) : source = Concat(ts)
    /\ recursion_limit = default_recursion_limit
    /\ error_limit \in 0..MaxErrorLimit
    /\ NothingLoaded

SpecQuota == InitQuota /\ [][Next]_vars

\* C27: the tree a parse returns does not depend on the error quota, and
\* the errors delivered under the quota k are the first k errors delivered
\* under a quota that never runs out.
TreeIndependentOfQuota ==
    /\ owned.done
         => Bind([full \in {load(source, recursion_limit, 100)} |->
                /\ Len(full.p.errs) < 100
                /\ owned.node = full.node
                /\ owned.p.errs
                     = SubSeq(full.p.errs, 1, Min(error_limit, Len(full.p.errs)))])
    /\ viewed.done
         => Bind([full \in {load_view(source, recursion_limit, 100)} |->
                /\ viewed.node = full.node
                /\ viewed.p.source = full.p.source
                /\ viewed.p.errs
                     = SubSeq(full.p.errs, 1, Min(error_limit, Len(full.p.errs)))])

\* a parse whose quota ran out before its last error, with nodes parsed
\* after the quota had run out
TreeIndependentOfQuotaWitness ==
    /\ owned.done /\ viewed.done
    /\ error_limit = 1
    /\ owned.p.error_calls >= 2
    /\ Len(owned.p.errs) = 1
    /\ Len(load(source, recursion_limit, 100).p.errs) = owned.p.error_calls
    /\ Len(owned.node.children) >= 1

\* C28: in view mode every write of add_character and copy_string goes to
\* an offset strictly below the read position of the scanner.
WritesBelowReadPosition == viewed.done => ~viewed.p.write_ahead

\* a view parse that unescaped a string in place: the buffer has changed
\* and the value is shorter than its source text
WritesBelowReadPositionWitness ==
    /\ viewed.done
    /\ viewed.p.source # source
    /\ \E i \in 1..Len(source) : source[i] = c_backslash
    /\ Len(viewed.node.children) >= 1
    /\ viewed.node.children[1].id.len + 3 <= Len(source)
    /\ viewed.node.children[1].id.len >= 1
    /\ ~viewed.p.write_ahead

\* text values: the bytes n, LF, `}` and a backslash
TextValues == SeqUpTo({ 110, c_newline, c_block_data_close, c_backslash }, MaxTextLen)

\* a node n with one text value, written as a string or, from
\* limit_for_block_enforcement bytes on, as a block
InitText ==
    /\ pc = "write"
    /\ \E v \in TextValues :
          tree = [id |-> <<>>, data |-> <<>>, children |->
                     << [id |-> <<110>>, data |-> <<v>>, children |-> <<>>] >>]
    /\ \E lim \in { 1, default_limit_for_block_enforcement } :
          param = writer_parameters("tabs", 1, lim, default_limit_for_checking_binary,
                                    default_base64_per_line)
    /\ source = <<>>
    /\ recursion_limit = default_recursion_limit
    /\ error_limit = default_maximum_error_limit
    /\ NothingLoaded

SpecText == InitText /\ [][NextWriter]_vars

\* C29: writer output is accepted by the parser: parsing the text written
\* from a tree with empty root id and root data, with
\* indentation_characters >= 1, never invokes the error sink.
WrittenTextHasNoErrors ==
    (pc = "loaded" /\ owned.done /\ param.indentation_characters >= 1)
        => owned.p.error_calls = 0

\* comments that pass a newline: `//` to the end of the line, and `/* */`
\* around an LF
PassingComments ==
    { <<c_comment_marker, c_comment_marker, c_newline>>,
      <<c_comment_marker, c_comment_marker, 100, c_newline>>,
      <<c_comment_marker, c_comment_marker, c_space, c_comment_multiline_marker,
        c_comment_marker, c_newline>>,
      <<c_comment_marker, c_comment_multiline_marker, c_newline,
        c_comment_multiline_marker, c_comment_marker>>,
      <<c_comment_marker, c_comment_multiline_marker, 100, c_newline, 100,
        c_comment_multiline_marker, c_comment_marker>> }

\* `/* */` comments on one line
StayingComments ==
    { <<c_comment_marker, c_comment_multiline_marker,
        c_comment_multiline_marker, c_comment_marker>>,
      <<c_comment_marker, c_comment_multiline_marker, 100,
        c_comment_multiline_marker, c_comment_marker>>,
      <<c_comment_marker, c_comment_multiline_marker, c_comment_marker,
        c_comment_marker, c_comment_multiline_marker, c_comment_marker>>,
      <<c_comment_marker, c_comment_multiline_marker, c_comment_marker,
        c_comment_multiline_marker, c_comment_marker>> }

\* the head of a node n in its data context: no value, a word, a string
CommentHeads ==
    { [text |-> <<110, c_space>>, data |-> <<>>],
      [text |-> <<110, c_space, 100, c_tab>>, data |-> << <<100>> >>],
      [text |-> <<110, c_space, c_double_quote, 100, c_double_quote>>,
       data |-> << <<100>> >>] }

CommentWords == { <<100>>, <<101, 101>> }

RECURSIVE JoinWords(_)
JoinWords(ws) ==
    IF ws = <<>> THEN <<>>
    ELSE IF Len(ws) = 1 THEN ws[1]
    ELSE ws[1] \o <<c_space>> \o JoinWords(Tail(ws))

\* a node in its data context, a comment, and words on the comment's last line
InitComment ==
    /\ pc = "load"
    /\ tree = empty_document
    /\ param = default_writer_parameters
    /\ \E h \in CommentHeads, c \in PassingComments \cup StayingComments,
          ws \in SeqUpTo(CommentWords, MaxCommentWords), lead \in { <<>>, <<c_space>> } :
          /\ input = [head |-> h, comment |-> c, words |-> ws]
          /\ source = h.text \o c \o lead \o JoinWords(ws)
    /\ recursion_limit = default_recursion_limit
    /\ error_limit = default_maximum_error_limit
    /\ output = <<>>
    /\ owned = Unloaded /\ viewed = Unloaded /\ crlf = Unloaded

SpecComment == InitComment /\ [][Next]_vars

\* the children the claim expects: after a comment that passed a newline the
\* first word is the identifier of a new node and the rest its data; after a
\* comment on one line the words are data of the node n
CommentChildren ==
    IF input.comment \in PassingComments
    THEN << [id |-> <<110>>, data |-> input.head.data, children |-> <<>>] >>
         \o (IF input.words = <<>> THEN <<>>
             ELSE << [id |-> Head(input.words), data |-> Tail(input.words),
                      children |-> <<>>] >>)
    ELSE << [id |-> <<110>>, data |-> input.head.data \o input.words,
             children |-> <<>>] >>

\* C30: in a node's data context a comment that passes a newline (`//`, or
\* `/* */` around a newline) ends the context and the words after it start a
\* new node; a `/* */` comment on one line does not, and the words after it
\* on that line are appended to the node's data.
CommentEndsDataContext ==
    /\ owned.done
         => /\ owned.node.children = CommentChildren
            /\ owned.p.error_calls = 0
    /\ viewed.done
         => /\ document_of_view(viewed.p.source, viewed.node).children = CommentChildren
            /\ viewed.p.error_calls = 0

\* `n /*` LF `*/d`: the word after the comment is a second node
CommentEndsDataContextWitness ==
    /\ owned.done /\ viewed.done
    /\ input.words # <<>>
    /\ input.comment = <<c_comment_marker, c_comment_multiline_marker, c_newline,
                          c_comment_multiline_marker, c_comment_marker>>
    /\ Len(owned.node.children) = 2
    /\ owned.node.children[2].id = Head(input.words)

\* C31: the writer emits LF only: whatever the tree and the writer
\* configuration, the text write_to_string returns holds no CR byte; a CR of
\* an id or of a value is written as the escape \r or inside a base64 block.
WriterEmitsNoCarriageReturn ==
    pc \in { "load", "loaded" }
        => \A i \in 1..Len(source) : source[i] # c_carriage_return

\* a value holding a CR has been written, and the text holds an LF
WriterEmitsNoCarriageReturnWitness ==
    /\ pc = "load"
    /\ Len(tree.children) = 1
    /\ Len(tree.children[1].data) = 1
    /\ \E i \in 1..Len(tree.children[1].data[1]) :
          tree.children[1].data[1][i] = c_carriage_return
    /\ \E i \in 1..Len(source) : source[i] = c_newline

\* pieces for every kind of read: carriage returns and comment markers for
\* the look-ahead, strings and escapes, nodes, blocks and a codec name
ReadTokens ==
    { <<110>>, <<c_space>>, <<c_newline>>, <<c_carriage_return>>,
      <<c_nested_node_marker>>, <<c_double_quote>>, <<c_block_data_open>>,
      <<c_block_data_close>>, <<c_backslash>>, <<c_comment_marker>>,
      <<c_comment_multiline_marker>>, <<c_end_of_data_context>>,
      <<c_block_data_open>> \o base64_codec \o <<c_newline>> }

InitReads ==
    /\ pc = "load"
    /\ tree = empty_document
    /\ param = default_writer_parameters
    /\ input \in SeqUpTo(ReadTokens, MaxReadTokens)
    /\ source = Concat(input)
    /\ recursion_limit = default_recursion_limit
    /\ error_limit = default_maximum_error_limit
    /\ output = <<>>
    /\ owned = Unloaded /\ viewed = Unloaded /\ crlf = Unloaded

SpecReads == InitReads /\ [][Next]_vars

\* C32: during a parse, with either storage and for every source, the empty
\* one included, every read of the source buffer (the byte under the cursor,
\* the look-ahead, the codec slice, the line and column scan of error()) is at
\* an index below the source length, also once skip() has moved the cursor
\* past the end.
ReadsInsideSource ==
    /\ owned.done => ~owned.p.out_of_bounds
    /\ viewed.done => ~viewed.p.out_of_bounds

\* both parsers have finished with the cursor past the end of the source
\* after reporting an error
ReadsInsideSourceWitness ==
    /\ owned.done /\ viewed.done
    /\ owned.p.buffer_position > Len(source)
    /\ viewed.p.buffer_position > Len(source)
    /\ owned.p.errs # <<>>
    /\ viewed.p.errs # <<>>

\* pieces of nodes whose quoted values hold the control byte 01 and 0xFF
RewriteTokens ==
    { <<110, c_space, c_double_quote>>, <<1>>, <<255>>, <<110>>,
      <<c_double_quote>>, <<c_newline>> }

InitRewrite ==
    /\ pc = "load"
    /\ tree = empty_document
    /\ param = default_writer_parameters
    /\ \E ts \in SeqUpTo(RewriteTokens, MaxRewriteTokens) : source = Concat(ts)
    /\ recursion_limit = default_recursion_limit
    /\ error_limit = default_maximum_error_limit
    /\ NothingLoaded

\* write_to_string of the document and of the document_view just loaded
WriteLoaded ==
    /\ pc = "loaded"
    /\ viewed.done
    /\ output' = [owned |-> write_to_string(owned.node, param),
                  view |-> write_to_string_view(viewed.p.source, viewed.node, param)]
    /\ pc' = "written"
    /\ UNCHANGED <<tree, param, source, recursion_limit, error_limit, owned, viewed,
                   crlf, input>>

NextRewrite == Load \/ LoadView \/ WriteLoaded

SpecRewrite == InitRewrite /\ [][NextRewrite]_vars

\* C33: convert_to_base64_fragment<N> reads input[0..N-1] only, so the four
\* characters written for a tail of one or two bytes depend on the tail
\* alone: a document and a document_view that are structurally equal are
\* written as the same bytes, whatever follows a slice in the view's buffer.
EqualTreesWrittenEqual ==
    (pc = "written"
     /\ owned.node = document_of_view(viewed.p.source, viewed.node))
        => output.owned = output.view

====
